---- MODULE Spec2Model ----
(***************************************************************************)
(* MOONLIT back-end: the chat orchestration loop and its persistence       *)
(* wrapper, the per-user connection context, the read-only query gate and  *)
(* the connection/descriptor handlers.                                     *)
(*                                                                         *)
(* Four specifications share one Init:                                     *)
(*   SpecChat   ChatOrchestrator.stream_with_tools driven through          *)
(*              ConversationService.create_streaming_generator             *)
(*   SpecConn   ContextService.get_connection and its writers              *)
(*   SpecQuery  execute_sql_query and the execute_query tool               *)
(*   SpecDesc   the _connect_* handlers, database / schema selection,      *)
(*              switch_remote_database and the introspection cache         *)
(***************************************************************************)
EXTENDS Bags, FiniteSets, Integers, Sequences, TLC

(***************************************************************************)
(* Bounds of the model (not program constants).                            *)
(***************************************************************************)
\* tool calls the model may put in one response
MaxCalls == 2
\* deltas in the final streamed completion
MaxStreamChunks == 2

\* the clock of the connection context advances in steps of TickSeconds, at
\* most MaxTicks times
TickSeconds == 30
MaxTicks == 6
\* pools are opened only while no more than MaxOpenPools are open
MaxOpenPools == 2
\* the clock of the schema cache advances in steps of CacheTickSeconds, at
\* most MaxCacheTicks times
CacheTickSeconds == 150
MaxCacheTicks == 3
\* add_query calls made on one document
MaxAdds == 11
\* a query yields at most MaxResultRows rows; a numeric max_rows is at most
\* MaxRowCap; MAX_QUERY_RESULTS stands for Config.MAX_QUERY_RESULTS
MaxResultRows == 4
MaxRowCap == 5
MAX_QUERY_RESULTS == 3
\* a tool result carries at most MaxDataRows rows
MaxDataRows == 30

\* completed clear_cache calls while the table lists are read
MaxClears == 2

\* add_query calls made by the concurrent requests of one user
MaxRequestAdds == 4

(***************************************************************************)
(* Program constants.                                                      *)
(***************************************************************************)
MAX_TOOL_ROUNDS == 10
\* persistence_seconds = persistence_minutes * 60
SecondsPerMinute == 60

ToolNames == {"execute_query", "get_connection_status"}
\* a text chunk as the persistence wrapper sees it: ordinary text, text that
\* is whitespace only, text whose first character is '['
TextClasses == {"plain", "blank", "bracket"}
\* arguments of a tool call: not JSON, JSON failing the pydantic schema,
\* valid with a rationale of some text class, valid with an empty rationale
ArgKinds == {"badjson", "invalid", "ok_plain", "ok_blank", "ok_bracket", "ok_norationale"}
NoCall == [name |-> "-", args |-> "-", raises |-> FALSE]
ToolCalls == [name : ToolNames, args : ArgKinds, raises : BOOLEAN]
\* one delta of the streamed completion: has reasoning text, has content of
\* a text class ("none" = no content)
Deltas == [reasoning : BOOLEAN, content : TextClasses \cup {"none"}]
NoDelta == [reasoning |-> FALSE, content |-> "none"]

VARIABLES
    \* ---- ChatOrchestrator.stream_with_tools (the inner generator) ----
    ipc,                \* position of the inner generator
    tool_round,
    toolLLMCalls,       \* completions.create calls made with tools
    finalLLMCalls,      \* streaming completions.create calls made without tools
    pending,            \* tool calls of the current response not yet processed
    cur,                \* the tool call being processed
    messages,           \* the LLM message list, as counters
    use_reasoning,
    reasoning_started,
    has_content,
    streamLeft,
    curDelta,
    \* ---- ConversationService.create_streaming_generator (the outer one) ----
    opc,                \* "idle", "running", "yielded", "errYielded", "finished"
    prompt_stored,
    response_stored,
    full_response_content,
    tools_used,
    was_aborted,
    store,              \* what FirestoreService.store_conversation received
    \* ---- history of the run ----
    everyResponseHadTools,
    errCause,           \* why the inner except handler ran: "none", "llm", "tool"
    abortedAt,          \* position of the inner generator when the consumer aborted
    openCall,           \* the call whose "running" frame is out and whose "done" frame is not
    badCalls,           \* tool calls received whose arguments do not parse or validate
    okCalls,            \* tool calls received whose arguments validate
    dispatched,         \* calls of ToolExecutor.execute
    \* ---- ContextService: the user's context document and its environment ----
    ctx,                \* the stored current_connection
    pref,               \* preferences.connection_persistence_minutes
    session,            \* the Flask session: "configured" or "empty"
    dbAlive,            \* whether the pooled connection still answers
    now,                \* the clock, in seconds
    lastGet,            \* the last get_connection call: inputs, result, effects
    lastProbeOkAt,      \* time of the last successful probe (-1: none)
    expiredSince,       \* a session_expired clearing happened and no set_connection since
    \* ---- query execution ----
    lastExec,           \* the last query call: path, input, statements sent, status
    lastRows,           \* the last execute_sql_query call: rows fetched, cap, rows returned
    \* ---- connection descriptor, introspection cache, pools ----
    config,             \* the database configuration held in the session
    infoCache,          \* DatabaseOperations._info_cache, per key
    pools,              \* the keys that have an open pool
    lastOp,             \* the last descriptor operation and what it did to the prior pool
    served,             \* where the last get_tables / get_table_schema answer came from
    lastConnect,        \* the last connect attempt: status returned, session and context after
    \* ---- ContextService: the schema cache of the context document ----
    database_schemas,   \* per database: the stored entry
    cacheNow,           \* the clock of the schema cache, in seconds
    lastCached,         \* per database: what cache_schema was last called with
    lastRead,           \* the last get_cached_schema call: database and result
    \* ---- ContextService: the query history of the context document ----
    recent_queries,     \* the stored list
    addCount,           \* add_query calls since the document was last empty
    \* ---- an adapter's get_cursor around one with-body ----
    gc_adapter,         \* the adapter and its dictionary argument
    gc_pc,              \* "idle", "body", "commit", "except", "finally", "exited"
    gc_cursor,          \* the cursor variable is set
    gc_calls,           \* calls made of commit, rollback and cursor.close
    gc_first,           \* the first exception of the body or the commit
    gc_pending,         \* the exception on its way to the caller
    \* ---- ToolExecutor.summarize_for_ui / summarize_for_llm ----
    lastSummary,        \* the last tool result summarised: input, UI summary, LLM summary
    \* ---- database lists ----
    lastList,           \* the last database list call: engine, names fetched, list returned
    \* ---- ConversationRepository.add_message ----
    sm_pc,              \* "idle", "loop", "cleaned"
    sm_i,               \* _strip_json_objects: i
    sm_result,          \* _strip_json_objects: result
    sm_msg,             \* the message: text before, the TOOL marker, text after
    sm_clean,           \* the content add_message stores
    \* ---- DatabaseOperations._info_cache read by several users ----
    ic_cache,           \* _info_cache: cache key -> entry, or NoData
    ic_pc,              \* per user: "idle", "miss", "fetched"
    ic_key,             \* per user: cache_key of the call in progress
    ic_rows,            \* per user: the rows the call fetched
    ic_ret,             \* per user: what the user's last call returned
    ic_clears,          \* completed clear_cache calls
    \* ---- ContextService.add_query called by concurrent requests ----
    aq_doc,             \* recent_queries of the user's context document
    aq_pc,              \* per request: "idle", "read"
    aq_queries,         \* per request: the local list `queries`
    aq_entry,           \* per request: the call whose query_entry is being added
    aq_calls,           \* add_query calls started
    aq_returned         \* the calls that returned True

chatVars == <<ipc, tool_round, toolLLMCalls, finalLLMCalls, pending, cur, messages,
              use_reasoning, reasoning_started, has_content, streamLeft, curDelta,
              opc, prompt_stored, response_stored, full_response_content,
              tools_used, was_aborted, store, everyResponseHadTools, errCause,
              abortedAt, openCall, badCalls, okCalls, dispatched>>

callCounts == <<badCalls, okCalls, dispatched>>

connVars == <<ctx, pref, session, dbAlive, now, lastGet, lastProbeOkAt, expiredSince>>

\* a chat run touches none of the state outside it
queryVars == <<lastExec, lastRows>>

\* a chat run touches none of the state outside it
descVars == <<config, infoCache, pools, lastOp, served, lastConnect>>

schemaVars == <<database_schemas, cacheNow, lastCached, lastRead>>

recentVars == <<recent_queries, addCount>>

cursorVars == <<gc_adapter, gc_pc, gc_cursor, gc_calls, gc_first, gc_pending>>

summaryVars == <<lastSummary>>

listVars == <<lastList>>

stripVars == <<sm_pc, sm_msg, sm_i, sm_result, sm_clean>>

firstVars == <<chatVars, connVars, queryVars, descVars, schemaVars, recentVars,
               cursorVars, summaryVars, listVars>>

infoVars == <<ic_cache, ic_pc, ic_key, ic_rows, ic_ret, ic_clears>>

addVars == <<aq_doc, aq_pc, aq_queries, aq_entry, aq_calls, aq_returned>>

tailVars == <<stripVars, infoVars, addVars>>

laterVars == <<cursorVars, summaryVars, listVars, tailVars>>

docVars == <<schemaVars, recentVars, laterVars>>

outsideChat == <<connVars, queryVars, descVars, docVars>>

vars == <<chatVars, connVars, queryVars, descVars, docVars>>

(***************************************************************************)
(* Chunks of the stream.  k = "tool": a = tool name, b = "running", "done" *)
(* (done with the structured result) or "done_error" (done with            *)
(* success=false, emitted without a running frame).  k = "thinking":       *)
(* b = "start", "chunk", "end".  k = "text": a = origin, b = text class.   *)
(***************************************************************************)
Chunk(k, a, b) == [k |-> k, a |-> a, b |-> b]

ToolFrame(name, status) == Chunk("tool", name, status)
ThinkingMarker(m) == Chunk("thinking", "-", m)
TextChunk(origin, cls) == Chunk("text", origin, cls)
\* an error text that begins with its bracket
ErrorChunkBracketed == TextChunk("error", "bracket")

\* "\n[ERROR] Failed to communicate with AI service: ..." starts with a
\* newline and is not blank
ErrorChunk == TextChunk("error", "plain")
FallbackChunk == TextChunk("fallback", "plain")

RationaleClass(args) ==
    CASE args = "ok_plain" -> "plain"
      [] args = "ok_blank" -> "blank"
      [] args = "ok_bracket" -> "bracket"
      [] OTHER -> "none"

(***************************************************************************)
(* ToolExecutor.execute hands db_config and max_rows to                    *)
(* AIToolExecutor.execute as keyword arguments; Python raises TypeError    *)
(* for a keyword the callee does not declare.                              *)
(***************************************************************************)
AIToolExecutorParams == {"tool_name", "parameters", "user_id", "db_config"}
ToolExecutorKeywords == {"db_config", "max_rows"}

\* AIToolExecutor.execute: every exception of a tool implementation is caught
\* and returned as {"error": str(e)}
AIToolExecutorExecute(call) == IF call.raises THEN "error_result" ELSE "result"

ToolExecutorExecute(call) ==
    IF ToolExecutorKeywords \subseteq AIToolExecutorParams
    THEN AIToolExecutorExecute(call)
    ELSE "TypeError"

(***************************************************************************)
(* create_streaming_generator: what the outer generator does with a chunk  *)
(* it receives from the inner one, up to its own yield.                    *)
(***************************************************************************)
UserRecord == [role |-> "user", content |-> EmptyBag, placeholder |-> FALSE,
               stopped |-> FALSE, tools |-> <<>>]

\* the first tool of that name still 'running' becomes 'done'
MarkDone(tools, name) ==
    LET hits == {i \in 1..Len(tools) : tools[i].name = name /\ tools[i].status = "running"}
    IN  IF hits = {} THEN tools
        ELSE LET first == CHOOSE i \in hits : \A j \in hits : i <= j
             IN  [tools EXCEPT ![first].status = "done"]

\* status group of the marker regex: (running|done)
FrameStatus(chunk) == IF chunk.b = "running" THEN "running" ELSE "done"

StoresPromptOn(chunk) ==
    \/ chunk.k = "tool" /\ FrameStatus(chunk) = "running"
    \/ chunk.k = "text" /\ chunk.b # "bracket"

PromptUnstoredAlways == TRUE
\* if not prompt_stored
PromptUnstored == ~prompt_stored

Deliver(chunk) ==
    /\ opc' = "yielded"
    /\ full_response_content' = full_response_content (+) SetToBag({chunk})
    /\ tools_used' =
         IF chunk.k # "tool" THEN tools_used
         ELSE IF FrameStatus(chunk) = "running"
              THEN Append(tools_used, [name |-> chunk.a, status |-> "running"])
              ELSE MarkDone(tools_used, chunk.a)
    /\ IF PromptUnstored /\ StoresPromptOn(chunk)
       THEN /\ store' = Append(store, UserRecord)
            /\ prompt_stored' = TRUE
       ELSE UNCHANGED <<store, prompt_stored>>
    /\ UNCHANGED <<response_stored, was_aborted, abortedAt>>
    /\ UNCHANGED outsideChat

\* the inner generator runs on without yielding
NoYield ==
    /\ opc' = "running"
    /\ UNCHANGED <<prompt_stored, response_stored, full_response_content,
                   tools_used, was_aborted, store, abortedAt>>
    /\ UNCHANGED outsideChat

\* "".join(full_response_content).strip() is non-empty
HasText(content) ==
    \E c \in BagToSet(content) : ~(c.k = "text" /\ c.b = "blank")

\* the finally block
Finalize(aborted) ==
    /\ opc' = "finished"
    /\ was_aborted' = aborted
    /\ IF prompt_stored /\ ~response_stored
          /\ (HasText(full_response_content) \/ tools_used # <<>>)
       THEN /\ store' = Append(store,
                   [role |-> "ai", content |-> full_response_content,
                    placeholder |-> ~HasText(full_response_content),
                    stopped |-> aborted, tools |-> tools_used])
            /\ response_stored' = TRUE
       ELSE UNCHANGED <<store, response_stored>>
    /\ UNCHANGED <<prompt_stored, full_response_content, tools_used>>
    /\ UNCHANGED outsideChat

InnerRuns == opc \in {"running", "yielded"}

loopVars == <<tool_round, toolLLMCalls, pending, messages, everyResponseHadTools>>
streamVars == <<finalLLMCalls, use_reasoning, reasoning_started, has_content,
                streamLeft, curDelta>>

\* the except clause of stream_with_tools: one error chunk, then the end
Raise(cause) ==
    /\ Deliver(ErrorChunk)
    /\ ipc' = "postError"
    /\ errCause' = cause

(***************************************************************************)
(* stream_with_tools, one action per stretch of code between two yields.   *)
(***************************************************************************)
\* the consumer asks for the first chunk: history is read, the generator is
\* created and started; LLMClient.get_client() runs outside the inner try
Start ==
    /\ opc = "idle"
    /\ \E ok \in BOOLEAN, reasoning \in BOOLEAN :
         /\ use_reasoning' = reasoning
         /\ IF ok
            THEN /\ opc' = "running"
                 /\ ipc' = "loopHead"
            ELSE /\ opc' = "errYielded"
                 /\ ipc' = "crashed"
    /\ UNCHANGED <<loopVars, cur, openCall, callCounts, finalLLMCalls, reasoning_started, has_content,
                   streamLeft, curDelta, prompt_stored, response_stored,
                   full_response_content, tools_used, was_aborted, store,
                   errCause, abortedAt, outsideChat>>

\* a loop test that is off by one
WhileGuardInclusive(round) == round <= MAX_TOOL_ROUNDS

\* while tool_round < MAX_TOOL_ROUNDS: tool_round += 1; create(..., tools=tools)
WhileGuard(round) == round < MAX_TOOL_ROUNDS

LLMCallWithTools ==
    /\ InnerRuns /\ ipc = "loopHead"
    /\ WhileGuard(tool_round)
    /\ tool_round' = tool_round + 1
    /\ toolLLMCalls' = toolLLMCalls + 1
    /\ \E outcome \in {"raise", "no_tools", "tools"} :
         CASE outcome = "raise" ->
                /\ Raise("llm")
                /\ UNCHANGED <<pending, messages, everyResponseHadTools>>
           [] outcome = "no_tools" ->
                /\ ipc' = "final"
                /\ everyResponseHadTools' = FALSE
                /\ NoYield
                /\ UNCHANGED <<pending, messages, errCause>>
           [] outcome = "tools" ->
                /\ \E n \in 1..MaxCalls :
                     /\ pending' = n
                     /\ messages' = [messages EXCEPT !.assistant = @ + 1,
                                                     !.toolCalls = @ + n]
                /\ ipc' = "forCall"
                /\ NoYield
                /\ UNCHANGED <<everyResponseHadTools, errCause>>
    /\ UNCHANGED <<cur, openCall, callCounts, streamVars>>

\* the while condition is false: the round limit is used up
LoopExhausted ==
    /\ InnerRuns /\ ipc = "loopHead"
    /\ ~WhileGuard(tool_round)
    /\ ipc' = "final"
    /\ NoYield
    /\ UNCHANGED <<loopVars, cur, openCall, callCounts, streamVars, errCause>>

\* Resuming after the "done" frame of a call (cur is that call): the
\* token-trimmed summary is appended as the tool message and the for loop
\* moves on.  After an error frame the loop just continues (cur = NoCall).
Resumed(msgs) ==
    IF cur # NoCall THEN [msgs EXCEPT !.toolMsgs = @ + 1] ELSE msgs

\* a call of the run is told from the others by its round and its place in it
NoKey == <<0, 0>>
CallKey == <<tool_round, pending>>

\* arguments that json.loads or validate_and_parse_args refuses
BadArgs == {"badjson", "invalid"}

\* except json.JSONDecodeError ... except ValueError: yield the error, continue
RejectsOnlyBadJson(args) == args = "badjson"
Rejects(args) == args \in BadArgs

\* for tool_call in tool_calls: parse and validate the arguments
NextToolCall ==
    /\ InnerRuns /\ ipc = "forCall"
    /\ pending > 0
    /\ messages' = Resumed(messages)
    /\ \E call \in ToolCalls :
         /\ badCalls' = badCalls + (IF call.args \in BadArgs THEN 1 ELSE 0)
         /\ okCalls' = okCalls + (IF call.args \in BadArgs THEN 0 ELSE 1)
         /\ IF Rejects(call.args)
            THEN \* structured error frame, then continue
                 /\ Deliver(ToolFrame(call.name, "done_error"))
                 /\ pending' = pending - 1
                 /\ ipc' = "forCall"
                 /\ cur' = NoCall
                 /\ UNCHANGED openCall
            ELSE /\ cur' = call
                 /\ pending' = pending
                 /\ IF RationaleClass(call.args) = "none"
                    THEN /\ Deliver(ToolFrame(call.name, "running"))
                         /\ openCall' = CallKey
                         /\ ipc' = "execute"
                    ELSE /\ Deliver(TextChunk("rationale", RationaleClass(call.args)))
                         /\ UNCHANGED openCall
                         /\ ipc' = "preRunning"
    /\ UNCHANGED <<tool_round, toolLLMCalls, everyResponseHadTools, dispatched,
                   streamVars, errCause>>

\* all calls of the round are processed: back to the while condition
RoundDone ==
    /\ InnerRuns /\ ipc = "forCall"
    /\ pending = 0
    /\ messages' = Resumed(messages)
    /\ cur' = NoCall
    /\ ipc' = "loopHead"
    /\ NoYield
    /\ UNCHANGED <<openCall, callCounts>>
    /\ UNCHANGED <<tool_round, toolLLMCalls, pending, everyResponseHadTools,
                   streamVars, errCause>>

\* after the rationale: the "running" frame
YieldRunning ==
    /\ InnerRuns /\ ipc = "preRunning"
    /\ Deliver(ToolFrame(cur.name, "running"))
    /\ openCall' = CallKey
    /\ ipc' = "execute"
    /\ UNCHANGED <<loopVars, cur, callCounts, streamVars, errCause>>

\* ToolExecutor.execute, then the "done" frame
ExecuteTool ==
    /\ InnerRuns /\ ipc = "execute"
    /\ IF ToolExecutorExecute(cur) = "TypeError"
       THEN /\ Raise("tool")
            /\ UNCHANGED <<pending, openCall>>
       ELSE /\ Deliver(ToolFrame(cur.name, "done"))
            /\ openCall' = NoKey
            /\ pending' = pending - 1
            /\ ipc' = "forCall"
            /\ UNCHANGED errCause
    /\ dispatched' = dispatched + 1
    /\ UNCHANGED <<tool_round, toolLLMCalls, messages, everyResponseHadTools,
                   cur, badCalls, okCalls, streamVars>>

\* after the tool loop: the streaming completion, created without tools
FinalCall ==
    /\ InnerRuns /\ ipc = "final"
    /\ finalLLMCalls' = finalLLMCalls + 1
    /\ \E ok \in BOOLEAN :
         IF ok
         THEN /\ \E n \in 0..MaxStreamChunks : streamLeft' = n
              /\ reasoning_started' = FALSE
              /\ has_content' = FALSE
              /\ ipc' = "stream"
              /\ NoYield
              /\ UNCHANGED errCause
         ELSE /\ Raise("llm")
              /\ UNCHANGED <<streamLeft, reasoning_started, has_content>>
    /\ UNCHANGED <<loopVars, cur, openCall, callCounts, use_reasoning, curDelta>>

\* for chunk in stream: the next delta arrives, or the transport fails
NextDelta ==
    /\ InnerRuns /\ ipc = "stream"
    /\ streamLeft > 0
    /\ \E ok \in BOOLEAN :
         IF ok
         THEN /\ \E d \in Deltas : curDelta' = d
              /\ streamLeft' = streamLeft - 1
              /\ ipc' = "reasoning"
              /\ NoYield
              /\ UNCHANGED errCause
         ELSE /\ Raise("llm")
              /\ UNCHANGED <<curDelta, streamLeft>>
    /\ UNCHANGED <<loopVars, cur, openCall, callCounts, finalLLMCalls, use_reasoning, reasoning_started,
                   has_content>>

\* if use_reasoning and reasoning_content: start marker on the first one
HandleReasoning ==
    /\ InnerRuns /\ ipc = "reasoning"
    /\ IF use_reasoning /\ curDelta.reasoning
       THEN IF ~reasoning_started
            THEN /\ Deliver(ThinkingMarker("start"))
                 /\ reasoning_started' = TRUE
                 /\ ipc' = "reasoningChunk"
            ELSE /\ Deliver(ThinkingMarker("chunk"))
                 /\ ipc' = "content"
                 /\ UNCHANGED reasoning_started
       ELSE /\ ipc' = "content"
            /\ NoYield
            /\ UNCHANGED reasoning_started
    /\ UNCHANGED <<loopVars, cur, openCall, callCounts, finalLLMCalls, use_reasoning, has_content,
                   streamLeft, curDelta, errCause>>

YieldReasoningChunk ==
    /\ InnerRuns /\ ipc = "reasoningChunk"
    /\ Deliver(ThinkingMarker("chunk"))
    /\ ipc' = "content"
    /\ UNCHANGED <<loopVars, cur, openCall, callCounts, streamVars, errCause>>

\* if content: close the thinking block if one is open, then the text
HandleContent ==
    /\ InnerRuns /\ ipc = "content"
    /\ IF curDelta.content # "none"
       THEN /\ has_content' = TRUE
            /\ IF reasoning_started
               THEN /\ Deliver(ThinkingMarker("end"))
                    /\ reasoning_started' = FALSE
                    /\ ipc' = "contentText"
               ELSE /\ Deliver(TextChunk("content", curDelta.content))
                    /\ ipc' = "stream"
                    /\ UNCHANGED reasoning_started
       ELSE /\ ipc' = "stream"
            /\ NoYield
            /\ UNCHANGED <<has_content, reasoning_started>>
    /\ UNCHANGED <<loopVars, cur, openCall, callCounts, finalLLMCalls, use_reasoning, streamLeft,
                   curDelta, errCause>>

YieldContent ==
    /\ InnerRuns /\ ipc = "contentText"
    /\ Deliver(TextChunk("content", curDelta.content))
    /\ ipc' = "stream"
    /\ UNCHANGED <<loopVars, cur, openCall, callCounts, streamVars, errCause>>

\* the stream is exhausted: close thinking if it is still open
StreamEnd ==
    /\ InnerRuns /\ ipc = "stream"
    /\ streamLeft = 0
    /\ ipc' = "fallback"
    /\ IF reasoning_started THEN Deliver(ThinkingMarker("end")) ELSE NoYield
    /\ UNCHANGED <<loopVars, cur, openCall, callCounts, streamVars, errCause>>

\* if not has_content and tool_round == 1: the fallback sentence
Fallback ==
    /\ InnerRuns /\ ipc = "fallback"
    /\ ipc' = "return"
    /\ IF ~has_content /\ tool_round = 1 THEN Deliver(FallbackChunk) ELSE NoYield
    /\ UNCHANGED <<loopVars, cur, openCall, callCounts, streamVars, errCause>>

\* the inner generator is exhausted: the for loop of the outer one ends and
\* its finally block runs
InnerReturns ==
    /\ InnerRuns /\ ipc \in {"return", "postError"}
    /\ ipc' = "ended"
    /\ Finalize(FALSE)
    /\ UNCHANGED <<loopVars, cur, openCall, callCounts, streamVars, errCause, abortedAt>>

\* GeneratorExit thrown into the outer generator at its yield inside the loop
Abort ==
    /\ opc = "yielded"
    /\ abortedAt' = ipc
    /\ ipc' = "abandoned"
    /\ Finalize(TRUE)
    /\ UNCHANGED <<loopVars, cur, openCall, callCounts, streamVars, errCause>>

\* the outer except clause yielded its error message; the consumer takes the
\* next chunk or closes: either way only the finally block is left
AfterOuterError ==
    /\ opc = "errYielded"
    /\ Finalize(FALSE)
    /\ UNCHANGED <<ipc, loopVars, cur, openCall, callCounts, streamVars, errCause, abortedAt>>

InitChat ==
    /\ ipc = "init"
    /\ tool_round = 0
    /\ toolLLMCalls = 0
    /\ finalLLMCalls = 0
    /\ pending = 0
    /\ cur = NoCall
    /\ openCall = NoKey
    /\ badCalls = 0
    /\ okCalls = 0
    /\ dispatched = 0
    /\ messages = [assistant |-> 0, toolCalls |-> 0, toolMsgs |-> 0]
    /\ use_reasoning = FALSE
    /\ reasoning_started = FALSE
    /\ has_content = FALSE
    /\ streamLeft = 0
    /\ curDelta = NoDelta
    /\ opc = "idle"
    /\ prompt_stored = FALSE
    /\ response_stored = FALSE
    /\ full_response_content = EmptyBag
    /\ tools_used = <<>>
    /\ was_aborted = FALSE
    /\ store = <<>>
    /\ everyResponseHadTools = TRUE
    /\ errCause = "none"
    /\ abortedAt = "-"

NextChat ==
    \/ Start
    \/ LLMCallWithTools
    \/ LoopExhausted
    \/ NextToolCall
    \/ RoundDone
    \/ YieldRunning
    \/ ExecuteTool
    \/ FinalCall
    \/ NextDelta
    \/ HandleReasoning
    \/ YieldReasoningChunk
    \/ HandleContent
    \/ YieldContent
    \/ StreamEnd
    \/ Fallback
    \/ InnerReturns
    \/ Abort
    \/ AfterOuterError

(***************************************************************************)
(* ContextService: the stored connection state and get_connection with its *)
(* two staleness layers.  The context document is read and written         *)
(* synchronously; one user, whose calls do not overlap.                    *)
(***************************************************************************)
Preferences == {0, 1, 2}
Databases == {"db1", "db2"}

\* context.get('current_connection', {'connected': False})
\* the context service touches none of the state outside it
outsideConn == <<chatVars, queryVars, descVars, docVars>>

NoConnection == [connected |-> FALSE, database |-> "none", connected_at |-> -1]

\* set_connection: a whole new current_connection, stamped with the time
SetConnectionData(db, t) == [connected |-> TRUE, database |-> db, connected_at |-> t]

\* clear_connection merges its fields into the stored map: connected_at,
\* which it does not name, stays
ClearConnectionKeepsFlag(conn) == conn
ClearConnectionData(conn) == [conn EXCEPT !.connected = FALSE, !.database = "none"]

\* _refresh_connection_timestamp re-reads the stored state and stamps it
RefreshConnectionTimestampSkipped(conn, t) == conn
RefreshConnectionTimestamp(conn, t) ==
    IF conn.connected THEN [conn EXCEPT !.connected_at = t] ELSE conn

\* is_db_configured(): raises outside a request context
IsDbConfigured(sess, inRequest) ==
    IF ~inRequest THEN "raise"
    ELSE IF sess = "configured" THEN "yes" ELSE "no"

\* _verify_db_connection: SELECT 1 on the pooled connection; any exception
\* means dead.  probed tells whether the statement was sent.
VerifyDbConnection(sess, inRequest, alive) ==
    IF IsDbConfigured(sess, inRequest) # "yes"
    THEN [ok |-> FALSE, probed |-> FALSE]
    ELSE [ok |-> alive, probed |-> TRUE]

\* if persistence_minutes == 0: return connection
SkipsVerificationNever(p) == FALSE
SkipsVerification(p) == p = 0

\* age_seconds > persistence_seconds
OlderOrAtPersistence(conn, p, t) == t - conn.connected_at >= p * SecondsPerMinute
OlderThanPersistence(conn, p, t) == t - conn.connected_at > p * SecondsPerMinute

Returned(conn, reason) ==
    [connected |-> conn.connected, database |-> conn.database,
     connected_at |-> conn.connected_at, reason |-> reason]
StaleCleared(reason) ==
    [connected |-> FALSE, database |-> "none", connected_at |-> -1, reason |-> reason]

\* get_connection as a function of what it reads: the value returned, the
\* stored state it leaves, and what it did on the way
GetConnectionOutcome(conn, sess, inRequest, p, alive, t) ==
    LET plain == [ret |-> Returned(conn, "none"), post |-> conn,
                  probed |-> FALSE, cleared |-> FALSE, refreshed |-> FALSE]
        v == VerifyDbConnection(sess, inRequest, alive)
    IN  IF ~conn.connected THEN plain
        ELSE IF IsDbConfigured(sess, inRequest) = "no"
        THEN [ret |-> StaleCleared("session_expired"),
              post |-> ClearConnectionData(conn),
              probed |-> FALSE, cleared |-> TRUE, refreshed |-> FALSE]
        ELSE IF conn.connected_at < 0 THEN plain
        ELSE IF SkipsVerification(p) THEN plain
        ELSE IF ~OlderThanPersistence(conn, p, t) THEN plain
        ELSE IF ~v.ok
        THEN [ret |-> StaleCleared("db_pool_dead"),
              post |-> ClearConnectionData(conn),
              probed |-> v.probed, cleared |-> TRUE, refreshed |-> FALSE]
        ELSE [ret |-> Returned(conn, "none"),
              post |-> RefreshConnectionTimestamp(conn, t),
              probed |-> v.probed, cleared |-> FALSE, refreshed |-> TRUE]

NoGet == [called |-> FALSE, pre |-> NoConnection, session |-> "empty",
          inRequest |-> FALSE, pref |-> 0, alive |-> FALSE, time |-> 0,
          sinceProbeOk |-> -1, afterExpiry |-> FALSE,
          out |-> GetConnectionOutcome(NoConnection, "empty", FALSE, 0, FALSE, 0)]

GetConnection ==
    \E inRequest \in BOOLEAN :
        LET out == GetConnectionOutcome(ctx, session, inRequest, pref, dbAlive, now)
        IN  /\ lastGet' = [called |-> TRUE, pre |-> ctx, session |-> session,
                           inRequest |-> inRequest, pref |-> pref,
                           alive |-> dbAlive, time |-> now,
                           sinceProbeOk |-> IF lastProbeOkAt < 0 THEN -1
                                            ELSE now - lastProbeOkAt,
                           afterExpiry |-> expiredSince, out |-> out]
            /\ ctx' = out.post
            /\ lastProbeOkAt' = IF out.refreshed THEN now ELSE lastProbeOkAt
            /\ expiredSince' = (expiredSince \/ out.ret.reason = "session_expired")
            /\ UNCHANGED <<pref, session, dbAlive, now, outsideConn>>

\* a successful connect: the handler stores the configuration in the
\* session and _sync_connection_context calls set_connection
Connect ==
    \E db \in Databases :
        /\ session' = "configured"
        /\ dbAlive' = TRUE
        /\ ctx' = SetConnectionData(db, now)
        /\ expiredSince' = FALSE
        /\ UNCHANGED <<pref, now, lastGet, lastProbeOkAt, outsideConn>>

\* disconnect_database: clear_connection and the session configuration
Disconnect ==
    /\ session = "configured"
    /\ session' = "empty"
    /\ ctx' = ClearConnectionData(ctx)
    /\ UNCHANGED <<pref, dbAlive, now, lastGet, lastProbeOkAt, expiredSince, outsideConn>>

\* the browser is closed: the Flask session is gone, the document stays
SessionLost ==
    /\ session = "configured"
    /\ session' = "empty"
    /\ UNCHANGED <<ctx, pref, dbAlive, now, lastGet, lastProbeOkAt, expiredSince, outsideConn>>

\* the server drops the pooled connection
PoolDies ==
    /\ dbAlive
    /\ dbAlive' = FALSE
    /\ UNCHANGED <<ctx, pref, session, now, lastGet, lastProbeOkAt, expiredSince, outsideConn>>

SetPreference ==
    \E p \in Preferences :
        /\ p # pref
        /\ pref' = p
        /\ UNCHANGED <<ctx, session, dbAlive, now, lastGet, lastProbeOkAt, expiredSince, outsideConn>>

Tick ==
    /\ now + TickSeconds <= MaxTicks * TickSeconds
    /\ now' = now + TickSeconds
    /\ UNCHANGED <<ctx, pref, session, dbAlive, lastGet, lastProbeOkAt, expiredSince, outsideConn>>

InitConn ==
    /\ ctx = NoConnection
    /\ pref = 0
    /\ session = "empty"
    /\ dbAlive = FALSE
    /\ now = 0
    /\ lastGet = NoGet
    /\ lastProbeOkAt = -1
    /\ expiredSince = FALSE

NextConn ==
    \/ GetConnection
    \/ Connect
    \/ Disconnect
    \/ SessionLost
    \/ PoolDies
    \/ SetPreference
    \/ Tick

(***************************************************************************)
(* Query execution: the session path (execute_sql_query) and the AI-tool   *)
(* path (_execute_query, _execute_query_with_db_config).  A query is what  *)
(* the code can tell about it: its length class, its prefix, and the       *)
(* outcome of DatabaseSecurity.analyze_sql_query.  sent lists the          *)
(* statements handed to cursor.execute, in order.                          *)
(***************************************************************************)
outsideQuery == <<chatVars, connVars, descVars, docVars>>

QueryTypes == {"SELECT", "DROP"}
Prefixes == {"empty", "select", "other"}
DbTypes == {"mysql", "postgresql", "sqlite"}

\* analysis: "raise", or the dictionary's is_safe and query_type
Queries ==
    {q \in [tooLong : BOOLEAN, prefix : Prefixes, analysis : {"ok", "raise"},
            is_safe : BOOLEAN, query_type : QueryTypes] :
        ~(q.prefix = "empty" /\ q.tooLong)}
NoQuery == [tooLong |-> FALSE, prefix |-> "empty", analysis |-> "raise",
            is_safe |-> FALSE, query_type |-> "DROP"]

\* what the driver does with the statements it is given
Drivers == [connects : BOOLEAN, setupOk : BOOLEAN, queryOk : BOOLEAN]

Result(sent, status) == [sent |-> sent, status |-> status, analysed |-> FALSE]
\* the call got as far as DatabaseSecurity.analyze_sql_query
Analysed(r) == [r EXCEPT !.analysed = TRUE]

\* if not analysis['is_safe'] ... if analysis['query_type'] != 'SELECT'
SessionGateAnyType(q) == q.is_safe
SessionGate(q) == q.is_safe /\ q.query_type = "SELECT"

\* SET SESSION MAX_EXECUTION_TIME / SET statement_timeout, failure ignored
TimeoutStatement(db_type) ==
    IF db_type \in {"mysql", "postgresql"} THEN <<"timeout">> ELSE <<>>

execute_sql_query(q, db_type, drv) ==
    IF q.tooLong THEN Result(<<>>, "error")
    ELSE Analysed(
        IF q.analysis = "raise" THEN Result(<<>>, "error")
        ELSE IF ~SessionGate(q) THEN Result(<<>>, "error")
        ELSE IF ~drv.connects THEN Result(<<>>, "error")
        ELSE Result(TimeoutStatement(db_type) \o <<"query">>,
                    IF drv.queryOk THEN "success" ELSE "error"))

\* the same two tests in _execute_query_with_db_config
ToolGateAnyType(q) == q.is_safe
ToolGate(q) == q.is_safe /\ q.query_type = "SELECT"

\* the length of the query is not looked at here; SET search_path TO
\* {schema}: a failure ends the call
execute_query_with_db_config(q, db_type, drv) ==
    Analysed(
        IF q.analysis = "raise" THEN Result(<<>>, "error")
        ELSE IF ~ToolGate(q) THEN Result(<<>>, "error")
        ELSE IF ~drv.connects THEN Result(<<>>, "error")
        ELSE IF db_type = "postgresql" /\ ~drv.setupOk
        THEN Result(<<"search_path">>, "error")
        ELSE Result((IF db_type = "postgresql" THEN <<"search_path">> ELSE <<>>)
                        \o <<"query">>,
                    IF drv.queryOk THEN "success" ELSE "error"))

\* _execute_query: connected is what get_connection reported
execute_query(q, connected, hasDbConfig, inRequest, db_type, drv) ==
    IF q.prefix = "empty" THEN Result(<<>>, "error")
    ELSE IF ~connected THEN Result(<<>>, "error")
    ELSE IF q.prefix # "select" THEN Result(<<>>, "error")
    ELSE IF hasDbConfig THEN execute_query_with_db_config(q, db_type, drv)
    ELSE IF inRequest THEN execute_sql_query(q, db_type, drv)
    ELSE Result(<<>>, "error")

\* path: "session" for execute_sql_query called by the route, "tool" for
\* _execute_query; direct tells that the tool was given a db_config
NoExec == [path |-> "none", q |-> NoQuery, db_type |-> "sqlite",
           direct |-> FALSE, out |-> Result(<<>>, "error")]

ExecuteSqlQuery ==
    \E q \in Queries, db_type \in DbTypes, drv \in Drivers :
        /\ lastExec' = [path |-> "session", q |-> q, db_type |-> db_type,
                        direct |-> FALSE,
                        out |-> execute_sql_query(q, db_type, drv)]
        /\ UNCHANGED <<lastRows, outsideQuery>>

ToolExecuteQuery ==
    \E q \in Queries, db_type \in DbTypes, drv \in Drivers,
       connected \in BOOLEAN, hasDbConfig \in BOOLEAN, inRequest \in BOOLEAN :
        /\ lastExec' = [path |-> "tool", q |-> q, db_type |-> db_type,
                        direct |-> hasDbConfig,
                        out |-> execute_query(q, connected, hasDbConfig,
                                              inRequest, db_type, drv)]
        /\ UNCHANGED <<lastRows, outsideQuery>>

\* ---- the rows of a query that ran (execute_sql_query after cursor.execute) ----
RowValues == {"a", "b"}
ResultSets == UNION {[1..k -> RowValues] : k \in 0..MaxResultRows}
\* the max_rows argument: None, or a number
MaxRowsArgs == {[given |-> FALSE, value |-> 0]}
                  \cup {[given |-> TRUE, value |-> v] : v \in 0..MaxRowCap}

\* max_rows if max_rows is not None else Config.MAX_QUERY_RESULTS
ActualMaxRows(max_rows) == IF max_rows.given THEN max_rows.value ELSE MAX_QUERY_RESULTS

\* if row_count > actual_max_rows
ExceedsOrMeets(row_count, actual_max_rows) == row_count >= actual_max_rows
Exceeds(row_count, actual_max_rows) == row_count > actual_max_rows

\* rows = cursor.fetchall() ... the returned dictionary
FetchResult(fetched, max_rows) ==
    LET actual_max_rows == ActualMaxRows(max_rows)
        row_count == Len(fetched)
        truncated == Exceeds(row_count, actual_max_rows)
        rows == IF truncated THEN SubSeq(fetched, 1, actual_max_rows) ELSE fetched
    IN [rows |-> rows, row_count |-> Len(rows), total_rows |-> row_count,
        truncated |-> truncated]

NoFetch == [rows |-> <<>>, row_count |-> 0, total_rows |-> 0, truncated |-> FALSE]
NoRows == [status |-> "none", fetched |-> <<>>, cap |-> 0, out |-> NoFetch]

\* the statuses execute_sql_query can end with, over every query, engine and driver
Statuses ==
    {execute_sql_query(q, db_type, drv).status :
        q \in Queries, db_type \in DbTypes, drv \in Drivers}

\* execute_sql_query(sql_query, max_rows): the result of a call whose query
\* yields the rows fetched
FetchRows ==
    \E status \in Statuses, fetched \in ResultSets, max_rows \in MaxRowsArgs :
        /\ lastRows' = IF status = "success"
                       THEN [status |-> status, fetched |-> fetched,
                             cap |-> ActualMaxRows(max_rows),
                             out |-> FetchResult(fetched, max_rows)]
                       ELSE [status |-> status, fetched |-> <<>>, cap |-> 0,
                             out |-> NoFetch]
        /\ UNCHANGED <<lastExec, outsideQuery>>

InitQuery ==
    /\ lastExec = NoExec
    /\ lastRows = NoRows

NextQuery ==
    \/ ExecuteSqlQuery
    \/ ToolExecuteQuery

(***************************************************************************)
(* The connection descriptor of the session, the process-wide              *)
(* introspection cache and the pools: the connect handlers, database and   *)
(* schema selection, the remote database switch, disconnect, and the cached *)
(* readers.  One user session.                                             *)
(***************************************************************************)
\* a connect handler touches none of the state outside the descriptor; the
\* other descriptor operations also leave the last connect result alone
outsideConnect == <<chatVars, connVars, queryVars, docVars>>
outsideDesc == <<outsideConnect, lastConnect>>

\* a PostgreSQL connection string and a local MySQL server
Servers == {"pg_remote", "my_local"}
DbNames == {"db1", "db2"}
Schemas == {"public", "sales"}

IsRemote(server) == server = "pg_remote"
DbTypeOf(server) == IF server = "my_local" THEN "mysql" ELSE "postgresql"

NoConfig == [server |-> "none", database |-> "none", schema |-> "public"]
NewConfig(server, db) == [server |-> server, database |-> db, schema |-> "public"]

\* the cache key of get_tables: tables_{db}_{schema}
CacheKeys == DbNames \X Schemas

\* DatabaseOperations.clear_cache()
ClearedCache == [k \in CacheKeys |-> "absent"]

\* an entry that outlives the establishment of a descriptor was cached under
\* a previous one
Outlived(cache) ==
    [k \in CacheKeys |-> IF cache[k] = "absent" THEN "absent" ELSE "previous"]

\* the pool registry: one entry per configuration, made on first use
PoolKey(cfg) == <<cfg.server, cfg.database>>
HasPool(cfg, reg) == cfg # NoConfig /\ PoolKey(cfg) \in reg
GetDbConnection(cfg, reg) == reg \cup {PoolKey(cfg)}
WithinPoolBound(reg) == Cardinality(reg) <= MaxOpenPools
\* close_user_pool(): closes the pool of the current configuration, if any
CloseUserPool(cfg, reg) == reg \ {PoolKey(cfg)}

\* what an operation did to the pool that was active before it
OpRecord(op, before, after, closedNow, regAfter) ==
    [op |-> op,
     replaced |-> before # NoConfig /\ after # NoConfig
                    /\ PoolKey(before) # PoolKey(after),
     priorHadPool |-> closedNow \/ (before # NoConfig /\ PoolKey(before) \in regAfter),
     priorClosed |-> IF closedNow THEN 1 ELSE 0,
     priorOpen |-> before # NoConfig /\ PoolKey(before) \in regAfter]
NoOp == [op |-> "none", replaced |-> FALSE, priorHadPool |-> FALSE,
         priorClosed |-> 0, priorOpen |-> FALSE]

\* get_tables(db_name, schema): the cache is looked up before the session
TablesOutcome(db, schema, cfg, cache, driverOk) ==
    IF cache[<<db, schema>>] # "absent"
    THEN [served |-> cache[<<db, schema>>], cache |-> cache, usedPool |-> FALSE]
    ELSE IF cfg = NoConfig \/ ~driverOk
    THEN [served |-> "error", cache |-> cache, usedPool |-> FALSE]
    ELSE [served |-> "miss", cache |-> [cache EXCEPT ![<<db, schema>>] = "current"],
          usedPool |-> TRUE]

\* what a _connect_* handler returns and leaves: validate_connection true
\* syncs the context and returns 'connected'; validate_connection false
\* returns 'error' at once; an exception clears the session and returns
\* 'error'.  Nothing after _sync_connection_context can raise.
NoConnect == [status |-> "none", cause |-> "none", configured |-> FALSE, synced |-> FALSE]
ConnectResult(outcome, after) ==
    [status     |-> IF outcome = "connected" THEN "connected" ELSE "error",
     cause      |-> outcome,
     configured |-> after # NoConfig,
     synced     |-> outcome = "connected"]

\* the _connect_* handlers: _clear_cache(), store the configuration, connect
ConnectHandler ==
    \E server \in Servers, db \in DbNames \cup {"none"},
       outcome \in {"connected", "invalid", "raise"} :
        LET new == NewConfig(server, db)
            reg == IF outcome = "raise" THEN pools ELSE GetDbConnection(new, pools)
            after == IF outcome = "raise" THEN NoConfig ELSE new
        IN  /\ infoCache' = ClearedCache
            /\ config' = after
            /\ pools' = reg
            /\ WithinPoolBound(reg)
            /\ lastOp' = OpRecord("connect", config, after, FALSE, reg)
            /\ lastConnect' = ConnectResult(outcome, after)
            /\ UNCHANGED <<served, outsideConnect>>

\* _handle_db_selection: update_database_in_session, then get_tables(db_name)
SelectDatabase ==
    \E db \in DbNames, driverOk \in BOOLEAN :
        /\ config # NoConfig
        /\ LET after == [config EXCEPT !.database = db]
               t == TablesOutcome(db, "public", after, Outlived(infoCache), driverOk)
               reg == IF t.usedPool THEN GetDbConnection(after, pools) ELSE pools
           IN  /\ config' = after
               /\ infoCache' = t.cache
               /\ served' = t.served
               /\ pools' = reg
               /\ WithinPoolBound(reg)
               /\ lastOp' = OpRecord("select_database", config, after, FALSE, reg)
        /\ UNCHANGED outsideDesc

\* switch_remote_database: _clear_connection_cache(), new connection string
SwitchRemoteDatabase ==
    \E db \in DbNames, outcome \in {"connected", "invalid", "raise"} :
        /\ config # NoConfig
        /\ IsRemote(config.server)
        /\ LET after == NewConfig(config.server, db)
               closed == CloseUserPool(config, pools)
               reg == IF outcome = "raise" THEN closed ELSE GetDbConnection(after, closed)
           IN  /\ infoCache' = ClearedCache
               /\ config' = after
               /\ pools' = reg
               /\ WithinPoolBound(reg)
               /\ lastOp' = OpRecord("switch", config, after, HasPool(config, pools), reg)
        /\ UNCHANGED <<served, outsideDesc>>

\* select_schema_with_notification: set_schema_in_session, tables read directly
SelectSchema ==
    \E schema \in Schemas, driverOk \in BOOLEAN :
        /\ config # NoConfig
        /\ DbTypeOf(config.server) = "postgresql"
        /\ LET after == [config EXCEPT !.schema = schema]
               reg == IF driverOk THEN GetDbConnection(after, pools) ELSE pools
           IN  /\ config' = after
               /\ infoCache' = Outlived(infoCache)
               /\ pools' = reg
               /\ WithinPoolBound(reg)
               /\ lastOp' = OpRecord("select_schema", config, after, FALSE, reg)
        /\ UNCHANGED <<served, outsideDesc>>

\* disconnect_database: close_user_pool, clear the session, clear_cache
DisconnectDatabase ==
    /\ config # NoConfig
    /\ pools' = CloseUserPool(config, pools)
    /\ config' = NoConfig
    /\ infoCache' = ClearedCache
    /\ lastOp' = OpRecord("disconnect", config, NoConfig, HasPool(config, pools),
                          CloseUserPool(config, pools))
    /\ UNCHANGED <<served, outsideDesc>>

\* DatabaseService.get_tables: database and schema of the session
GetTables ==
    \E driverOk \in BOOLEAN :
        /\ config # NoConfig /\ config.database # "none"
        /\ LET t == TablesOutcome(config.database, config.schema, config,
                                  infoCache, driverOk)
           IN  /\ infoCache' = t.cache
               /\ served' = t.served
               /\ pools' = IF t.usedPool THEN GetDbConnection(config, pools) ELSE pools
               /\ WithinPoolBound(pools')
        /\ UNCHANGED <<config, lastOp, outsideDesc>>

\* the AI tools: DatabaseOperations.get_tables(database), schema defaulted
ToolGetTables ==
    \E db \in DbNames, driverOk \in BOOLEAN :
        /\ LET t == TablesOutcome(db, "public", config, infoCache, driverOk)
           IN  /\ infoCache' = t.cache
               /\ served' = t.served
               /\ pools' = IF t.usedPool THEN GetDbConnection(config, pools) ELSE pools
               /\ WithinPoolBound(pools')
        /\ UNCHANGED <<config, lastOp, outsideDesc>>

\* get_table_schema: no schema_ key is ever stored, and the lookup is
\* followed by get_cursor, a name the module does not define
GetTableSchema ==
    /\ served' = "schema_error"
    /\ UNCHANGED <<config, infoCache, pools, lastOp, outsideDesc>>

InitDesc ==
    /\ config = NoConfig
    /\ infoCache = ClearedCache
    /\ pools = {}
    /\ lastOp = NoOp
    /\ served = "none"
    /\ lastConnect = NoConnect

NextDesc ==
    \/ ConnectHandler
    \/ SelectDatabase
    \/ SwitchRemoteDatabase
    \/ SelectSchema
    \/ DisconnectDatabase
    \/ GetTables
    \/ ToolGetTables
    \/ GetTableSchema

(***************************************************************************)
(* ContextService: the schema cache.  database_schemas is a map of the     *)
(* user's context document; every write goes through _update_context,      *)
(* which is DocumentReference.set(data, merge=True): the leaves of the     *)
(* written data replace the stored leaves and every stored leaf the data   *)
(* does not name stays.  A list is a leaf, a non-empty dict is not, an     *)
(* empty dict is a leaf.                                                   *)
(***************************************************************************)
outsideDoc == <<chatVars, connVars, queryVars, descVars, laterVars>>

outsideSchema == <<outsideDoc, recentVars>>

SchemaTables == {"t1", "t2"}
\* the value kept under columns[table]; "absent": columns has no such key
ColumnList == "cols"
ColumnMaps == [SchemaTables -> {ColumnList, "absent"}]
EmptyColumns == [t \in SchemaTables |-> "absent"]
ColumnsOf(tables) == [t \in SchemaTables |-> IF t \in tables THEN ColumnList ELSE "absent"]

NoEntry == [present |-> FALSE, tables |-> {}, columns |-> EmptyColumns, cached_at |-> 0]
NoSchemas == [d \in Databases |-> NoEntry]
NoRead == [called |-> FALSE, database |-> "db1", hit |-> FALSE,
           tables |-> {}, columns |-> EmptyColumns]

\* set(..., merge=True) on the columns map of one entry
MergeColumns(stored, written) ==
    IF written = EmptyColumns THEN EmptyColumns
    ELSE [t \in SchemaTables |-> IF written[t] # "absent" THEN written[t] ELSE stored[t]]

SCHEMA_CACHE_TTL_SECONDS == 300

\* get_cached_schema's TTL test
CacheExpired(entry, t) == t - entry.cached_at > SCHEMA_CACHE_TTL_SECONDS

\* what get_cached_schema returns for a stored entry at time t
get_cached_schema(entry, t) ==
    IF ~entry.present THEN NoEntry
    ELSE IF CacheExpired(entry, t) THEN NoEntry
    ELSE entry

\* cache_schema(user_id, database, tables, columns): the entry is built new,
\* placed in the map read from the document, and the map is merged back
CacheSchema ==
    \E d \in Databases, tables \in SUBSET SchemaTables :
       LET columns == ColumnsOf(tables)
           stored  == database_schemas[d]
       IN /\ database_schemas' = [database_schemas EXCEPT ![d] =
                 [present   |-> TRUE,
                  tables    |-> tables,
                  columns   |-> MergeColumns(stored.columns, columns),
                  cached_at |-> cacheNow]]
          /\ lastCached' = [lastCached EXCEPT ![d] =
                 [present |-> TRUE, tables |-> tables, columns |-> columns,
                  cached_at |-> cacheNow]]
          /\ UNCHANGED <<cacheNow, lastRead, outsideSchema>>

GetCachedSchema ==
    \E d \in Databases :
       LET ret == get_cached_schema(database_schemas[d], cacheNow)
       IN /\ lastRead' = [called |-> TRUE, database |-> d, hit |-> ret.present,
                          tables |-> ret.tables, columns |-> ret.columns]
          /\ UNCHANGED <<database_schemas, cacheNow, lastCached, outsideSchema>>

\* update({'database_schemas.<database>': DELETE_FIELD})
InvalidateSchemaCache ==
    \E d \in Databases :
       /\ database_schemas' = [database_schemas EXCEPT ![d] = NoEntry]
       /\ lastCached' = [lastCached EXCEPT ![d] = NoEntry]
       /\ UNCHANGED <<cacheNow, lastRead, outsideSchema>>

\* clear_all_context deletes the document
ClearAllContext ==
    /\ database_schemas' = NoSchemas
    /\ lastCached' = NoSchemas
    /\ recent_queries' = <<>>
    /\ addCount' = 0
    /\ UNCHANGED <<cacheNow, lastRead, outsideDoc>>

CacheTick ==
    /\ cacheNow < MaxCacheTicks * CacheTickSeconds
    /\ cacheNow' = cacheNow + CacheTickSeconds
    /\ UNCHANGED <<database_schemas, lastCached, lastRead, outsideSchema>>

InitSchema ==
    /\ database_schemas = NoSchemas
    /\ cacheNow = 0
    /\ lastCached = NoSchemas
    /\ lastRead = NoRead
    /\ recent_queries = <<>>
    /\ addCount = 0

NextSchema ==
    \/ CacheSchema
    \/ GetCachedSchema
    \/ InvalidateSchemaCache
    \/ ClearAllContext
    \/ CacheTick

(***************************************************************************)
(* ContextService: the query history.  recent_queries is a list, which a   *)
(* merge write replaces whole.  A query text is modelled by its length;    *)
(* an entry keeps the number of the add_query call that made it and the    *)
(* length that call was given.                                             *)
(***************************************************************************)
MAX_RECENT_QUERIES == 10
\* query[:500]
MaxQueryText == 500
QueryLengths == {MaxQueryText - 1, MaxQueryText, MaxQueryText + 1}

\* query[:500]
Truncated(len) == IF len > MaxQueryText THEN MaxQueryText ELSE len

\* queries[-MAX_RECENT_QUERIES:]
KeepFirst(queries) ==
    IF Len(queries) > MAX_RECENT_QUERIES
    THEN SubSeq(queries, 1, MAX_RECENT_QUERIES)
    ELSE queries
KeepLast(queries) ==
    IF Len(queries) > MAX_RECENT_QUERIES
    THEN SubSeq(queries, Len(queries) - MAX_RECENT_QUERIES + 1, Len(queries))
    ELSE queries

\* add_query(user_id, query, database, row_count, status)
AddQuery ==
    \E len \in QueryLengths :
       /\ addCount < MaxAdds
       /\ LET query_entry == [call |-> addCount + 1, query |-> Truncated(len), given |-> len]
          IN recent_queries' = KeepLast(Append(recent_queries, query_entry))
       /\ addCount' = addCount + 1
       /\ UNCHANGED <<schemaVars, outsideDoc>>

NextRecent ==
    \/ AddQuery
    \/ ClearAllContext

NextRows ==
    \/ FetchRows

(***************************************************************************)
(* The adapters' get_cursor, a @contextmanager generator:                  *)
(*     cursor = None                                                       *)
(*     try:     cursor = connection.cursor(); yield cursor;                *)
(*              connection.commit()                                        *)
(*     except Exception as e:  connection.rollback(); raise e              *)
(*     finally: if cursor: cursor.close()                                  *)
(* Every driver call can raise.  An exception of the with-body is thrown   *)
(* into the generator at the yield.                                        *)
(***************************************************************************)
outsideCursor == <<chatVars, connVars, queryVars, descVars, schemaVars, recentVars,
                  summaryVars, listVars, tailVars>>

Adapters == {"postgresql", "oracle", "sqlserver"}
NoAdapter == [name |-> "none", dictionary |-> FALSE]
\* what can leave the with-body: an Exception, or a BaseException that is
\* not an Exception (KeyboardInterrupt, SystemExit, GeneratorExit)
BodyExceptions == {"Exception", "BaseException"}
NoCalls == [commit |-> 0, rollback |-> 0, close |-> 0, committed |-> FALSE]

\* except Exception
Caught(exc) == exc # "BaseException"

\* cursor = connection.cursor(...)
GetCursor ==
    \E name \in Adapters, dictionary \in BOOLEAN, ok \in BOOLEAN :
        /\ gc_pc = "idle"
        /\ gc_adapter' = [name |-> name, dictionary |-> dictionary]
        /\ gc_cursor' = ok
        /\ gc_pending' = IF ok THEN "none" ELSE "cursor_error"
        /\ gc_pc' = IF ok THEN "body" ELSE "except"
        /\ UNCHANGED <<gc_calls, gc_first, outsideCursor>>

\* the with-body ends normally (falls off its end, returns, breaks)
BodyFinishes ==
    /\ gc_pc = "body"
    /\ gc_pc' = "commit"
    /\ UNCHANGED <<gc_adapter, gc_cursor, gc_calls, gc_first, gc_pending, outsideCursor>>

BodyRaises ==
    \E exc \in BodyExceptions :
        /\ gc_pc = "body"
        /\ gc_first' = exc
        /\ gc_pending' = exc
        /\ gc_pc' = IF Caught(exc) THEN "except" ELSE "finally"
        /\ UNCHANGED <<gc_adapter, gc_cursor, gc_calls, outsideCursor>>

\* connection.commit()
Commit ==
    \E ok \in BOOLEAN :
        /\ gc_pc = "commit"
        /\ gc_calls' = [gc_calls EXCEPT !.commit = @ + 1, !.committed = ok]
        /\ gc_first' = IF ok THEN gc_first ELSE "commit_error"
        /\ gc_pending' = IF ok THEN gc_pending ELSE "commit_error"
        /\ gc_pc' = IF ok THEN "finally" ELSE "except"
        /\ UNCHANGED <<gc_adapter, gc_cursor, outsideCursor>>

\* connection.rollback(); raise e
Rollback ==
    \E ok \in BOOLEAN :
        /\ gc_pc = "except"
        /\ gc_calls' = [gc_calls EXCEPT !.rollback = @ + 1]
        /\ gc_pending' = IF ok THEN gc_pending ELSE "rollback_error"
        /\ gc_pc' = "finally"
        /\ UNCHANGED <<gc_adapter, gc_cursor, gc_first, outsideCursor>>

\* if cursor: cursor.close()
Finally ==
    \E ok \in BOOLEAN :
        /\ gc_pc = "finally"
        /\ gc_cursor \/ ok
        /\ gc_calls' = IF gc_cursor THEN [gc_calls EXCEPT !.close = @ + 1] ELSE gc_calls
        /\ gc_pending' = IF gc_cursor /\ ~ok THEN "close_error" ELSE gc_pending
        /\ gc_pc' = "exited"
        /\ UNCHANGED <<gc_adapter, gc_cursor, gc_first, outsideCursor>>

InitCursor ==
    /\ gc_adapter = NoAdapter
    /\ gc_pc = "idle"
    /\ gc_cursor = FALSE
    /\ gc_calls = NoCalls
    /\ gc_first = "none"
    /\ gc_pending = "none"

NextCursor ==
    \/ GetCursor
    \/ BodyFinishes
    \/ BodyRaises
    \/ Commit
    \/ Rollback
    \/ Finally

(***************************************************************************)
(* The summaries of a tool result.  The raw result is what json.loads      *)
(* gives of AIToolExecutor._execute_query's dictionary (get_sample_data    *)
(* returns the same dictionary): an error, or columns, data, row_count and *)
(* truncated, data being a list of dictionaries keyed by column name, so   *)
(* the pydantic models accept it.  A row is modelled by its number.        *)
(***************************************************************************)
outsideSummary == <<chatVars, connVars, queryVars, descVars, schemaVars, recentVars,
                   cursorVars, listVars, tailVars>>

RowTools == {"execute_query", "get_sample_data"}
RawResults ==
    {[error |-> TRUE, data |-> <<>>, truncated |-> FALSE]}
       \cup {[error |-> FALSE, data |-> [i \in 1..n |-> i], truncated |-> t] :
                n \in 0..MaxDataRows, t \in BOOLEAN}

\* data[:5]
PreviewRows == 5
Preview(data) == IF Len(data) > PreviewRows THEN SubSeq(data, 1, PreviewRows) ELSE data

\* structure_tool_result: hasData tells whether the dictionary has a 'data' key
structure_tool_result(tool_name, raw_result) ==
    IF raw_result.error
    THEN [success |-> FALSE, preview |-> <<>>, hasData |-> FALSE, data |-> <<>>]
    ELSE IF tool_name = "execute_query"
    THEN [success |-> TRUE, preview |-> Preview(raw_result.data),
          hasData |-> TRUE, data |-> raw_result.data]
    ELSE [success |-> TRUE, preview |-> Preview(raw_result.data),
          hasData |-> FALSE, data |-> <<>>]

summarize_for_ui(tool_name, result) == structure_tool_result(tool_name, result)

\* if tool_name == "execute_query" and 'data' in structured: del structured['data']
DropsDataNever(tool_name, structured) == FALSE
DropsData(tool_name, structured) == tool_name = "execute_query" /\ structured.hasData

summarize_for_llm(tool_name, result) ==
    LET structured == structure_tool_result(tool_name, result)
    IN IF DropsData(tool_name, structured)
       THEN [structured EXCEPT !.hasData = FALSE, !.data = <<>>]
       ELSE structured

NoSummary == [called |-> FALSE, tool |-> "execute_query",
              raw |-> [error |-> TRUE, data |-> <<>>, truncated |-> FALSE],
              ui |-> structure_tool_result("execute_query",
                        [error |-> TRUE, data |-> <<>>, truncated |-> FALSE]),
              llm |-> structure_tool_result("execute_query",
                        [error |-> TRUE, data |-> <<>>, truncated |-> FALSE])]

\* orchestrator: result_summary for the 'done' frame, llm_summary for the
\* tool message
SummarizeToolResult ==
    \E tool_name \in RowTools, raw \in RawResults :
        /\ lastSummary' = [called |-> TRUE, tool |-> tool_name, raw |-> raw,
                           ui |-> summarize_for_ui(tool_name, raw),
                           llm |-> summarize_for_llm(tool_name, raw)]
        /\ UNCHANGED outsideSummary

InitSummary ==
    /\ lastSummary = NoSummary

NextSummary ==
    \/ SummarizeToolResult

(***************************************************************************)
(* Database lists: DatabaseOperations.get_databases and the                *)
(* get_database_list tool.  A name is its lower-case form and whether it   *)
(* is written with upper-case letters; str.lower() gives the former.       *)
(***************************************************************************)
outsideList == <<chatVars, connVars, queryVars, descVars, schemaVars, recentVars,
                cursorVars, summaryVars, tailVars>>

\* get_system_databases(), one name of each set
get_system_databases(engine) ==
    CASE engine = "postgresql" -> {"template1"}
      [] engine = "sqlserver" -> {"master"}
      [] engine = "oracle" -> {"system"}

LowerNames(engine) == get_system_databases(engine) \cup {"appdb"}
DbNamesOf(engine) == [lower : LowerNames(engine), upper : BOOLEAN]
NoName == [lower |-> "-", upper |-> FALSE]
Lower(name) == name.lower

\* [db for db in databases if db.lower() not in system_dbs]
UserDatabases(engine, databases) ==
    {db \in databases : Lower(db) \notin get_system_databases(engine)}

NoList == [path |-> "none", engine |-> "postgresql", queried |-> FALSE,
           fetched |-> {}, status |-> "error", databases |-> {}]

\* DatabaseOperations.get_databases(): an error without a configuration or
\* when the query raises
GetDatabases ==
    \E engine \in Adapters, configured \in BOOLEAN, ok \in BOOLEAN :
      \E fetched \in SUBSET DbNamesOf(engine) :
        /\ lastList' =
             IF configured /\ ok
             THEN [path |-> "operations", engine |-> engine, queried |-> TRUE,
                   fetched |-> fetched, status |-> "success",
                   databases |-> UserDatabases(engine, fetched)]
             ELSE [path |-> "operations", engine |-> engine, queried |-> FALSE,
                   fetched |-> {}, status |-> "error", databases |-> {}]
        /\ UNCHANGED outsideList

\* AIToolExecutor._get_database_list: the direct query with a db_config;
\* without one, or when the query raises, the current database of the
\* stored connection context
ToolGetDatabaseList ==
    \E engine \in Adapters, connected \in BOOLEAN, hasDbConfig \in BOOLEAN,
       ok \in BOOLEAN :
      \E fetched \in SUBSET DbNamesOf(engine),
         current_db \in DbNamesOf(engine) \cup {NoName} :
        /\ lastList' =
             IF ~connected
             THEN [path |-> "tool", engine |-> engine, queried |-> FALSE,
                   fetched |-> {}, status |-> "error", databases |-> {}]
             ELSE IF hasDbConfig /\ ok
             THEN [path |-> "tool", engine |-> engine, queried |-> TRUE,
                   fetched |-> fetched, status |-> "success",
                   databases |-> UserDatabases(engine, fetched)]
             ELSE [path |-> "tool", engine |-> engine, queried |-> FALSE,
                   fetched |-> {}, status |-> "success",
                   databases |-> IF current_db = NoName THEN {} ELSE {current_db}]
        /\ UNCHANGED outsideList

InitList ==
    /\ lastList = NoList

NextList ==
    \/ GetDatabases
    \/ ToolGetDatabaseList

(***************************************************************************)
(* Stored assistant messages: ConversationRepository.add_message,          *)
(* _strip_markers and _strip_json_objects.  A text is a sequence of        *)
(* one-character strings, positions count from 1.                          *)
(***************************************************************************)
outsideStrip == <<firstVars, infoVars, addVars>>

TOOL_OPEN == <<"[", "[", "T", "O", "O", "L", ":">>
MARKER_CLOSE == <<"]", "]">>

\* preceding = text[max(0, i-100):i]
LookBack == 100

Max(a, b) == IF a > b THEN a ELSE b

StartsAt(s, k, pat) ==
    /\ k + Len(pat) - 1 <= Len(s)
    /\ SubSeq(s, k, k + Len(pat) - 1) = pat

Occurrences(s, pat) == {k \in 1..Len(s) : StartsAt(s, k, pat)}

\* pat in s
Contains(s, pat) == Occurrences(s, pat) # {}

\* s.rfind(pat), for a pat that s contains
RFind(s, pat) ==
    CHOOSE k \in Occurrences(s, pat) : \A o \in Occurrences(s, pat) : o <= k

Preceding(text, i) == SubSeq(text, Max(1, i - LookBack), i - 1)

in_tool_marker(text, i) ==
    LET preceding == Preceding(text, i)
    IN  /\ Contains(preceding, TOOL_OPEN)
        /\ ~Contains(SubSeq(preceding, RFind(preceding, TOOL_OPEN),
                            Len(preceding)), MARKER_CLOSE)

\* one turn of the inner while loop on the character c
ScanTurn(c, st) ==
    IF st.escape_next THEN [st EXCEPT !.escape_next = FALSE]
    ELSE IF c = "\\" /\ st.in_string THEN [st EXCEPT !.escape_next = TRUE]
    ELSE IF c = "\"" THEN [st EXCEPT !.in_string = ~st.in_string]
    ELSE IF ~st.in_string /\ c = "{" THEN [st EXCEPT !.depth = st.depth + 1]
    ELSE IF ~st.in_string /\ c = "}" THEN [st EXCEPT !.depth = st.depth - 1]
    ELSE st

ScanStart == [depth |-> 1, in_string |-> FALSE, escape_next |-> FALSE]

\* the inner while loop from position j: where it stops and the depth it
\* stops with
RECURSIVE MatchBrace(_, _, _)
MatchBrace(text, j, st) ==
    IF j <= Len(text) /\ st.depth > 0
       THEN MatchBrace(text, j + 1, ScanTurn(text[j], st))
       ELSE [j |-> j, depth |-> st.depth]

\* json.loads on the texts of this alphabet: an object is {} or has members
\* "key":value separated by commas, a value is a string or an object.  Each
\* parser gives the position after what it read, 0 when it fails.
ParseString(s, k) ==
    IF k > Len(s) \/ s[k] # "\"" THEN 0
    ELSE LET ends == {e \in (k + 1)..Len(s) : s[e] = "\""}
         IN  IF ends = {} THEN 0
             ELSE 1 + CHOOSE e \in ends : \A o \in ends : e <= o

RECURSIVE ParseValue(_, _), ParseMembers(_, _)
ParseValue(s, k) ==
    IF k > Len(s) THEN 0
    ELSE IF s[k] = "\"" THEN ParseString(s, k)
    ELSE IF s[k] = "{"
            THEN IF k + 1 <= Len(s) /\ s[k + 1] = "}" THEN k + 2
                 ELSE ParseMembers(s, k + 1)
    ELSE 0

ParseMembers(s, k) ==
    LET a == ParseString(s, k)
    IN  IF a = 0 \/ a > Len(s) \/ s[a] # ":" THEN 0
        ELSE LET b == ParseValue(s, a + 1)
             IN  IF b = 0 \/ b > Len(s) THEN 0
                 ELSE IF s[b] = "}" THEN b + 1
                 ELSE IF s[b] = "," THEN ParseMembers(s, b + 1)
                 ELSE 0

\* json.loads(json_candidate) does not raise
json_loads(s) == ParseValue(s, 1) = Len(s) + 1

\* one turn of the outer while loop at position i: the next position and
\* the result so far
LoopTurn(text, i, result) ==
    IF text[i] = "{" /\ ~in_tool_marker(text, i)
       THEN LET m == MatchBrace(text, i + 1, ScanStart)
            IN  IF m.depth = 0 /\ json_loads(SubSeq(text, i, m.j - 1))
                   THEN [i |-> m.j, result |-> result]
                   ELSE [i |-> i + 1, result |-> Append(result, text[i])]
       ELSE [i |-> i + 1, result |-> Append(result, text[i])]

\* if not text or '{' not in text: return text
ReturnsAtOnce(text) == text = <<>> \/ ~Contains(text, <<"{">>)

IsSpace(c) == c \in {" ", "\n"}

\* str.strip()
RECURSIVE LStrip(_), RStrip(_)
LStrip(s) == IF s # <<>> /\ IsSpace(Head(s)) THEN LStrip(Tail(s)) ELSE s
RStrip(s) ==
    IF s # <<>> /\ IsSpace(s[Len(s)]) THEN RStrip(SubSeq(s, 1, Len(s) - 1)) ELSE s
StripSpace(s) == LStrip(RStrip(s))

Letters(n) == [i \in 1..n |-> "a"]

\* the lengths of the string inside the marker's arguments
ArgLens == {0, 80, 81, 100}

\* {"a":"aaa"}
StringObject(n) == <<"{", "\"", "a", "\"", ":", "\"">> \o Letters(n) \o <<"\"", "}">>
\* {"a":"aaa","a":{}}
NestedObject(n) ==
    <<"{", "\"", "a", "\"", ":", "\"">> \o Letters(n)
        \o <<"\"", ",", "\"", "a", "\"", ":", "{", "}", "}">>

MarkerArgs == {StringObject(n) : n \in ArgLens} \cup {NestedObject(n) : n \in ArgLens}
MarkerResults == {<<"n", "u", "l", "l">>, <<"{", "}">>, StringObject(1)}

\* [[TOOL:name:status:args:result]]
ToolMarker(args, result) ==
    TOOL_OPEN \o <<"a", ":", "a", ":">> \o args \o <<":">> \o result \o MARKER_CLOSE

\* text around the marker, and what of it is no complete valid JSON object
Around ==
    { [text |-> <<>>, kept |-> <<>>],
      [text |-> <<"a", " ">>, kept |-> <<"a", " ">>],
      [text |-> <<"{", "}">>, kept |-> <<>>],
      [text |-> <<"a">> \o StringObject(1), kept |-> <<"a">>],
      [text |-> <<"{", "a", "}">>, kept |-> <<"{", "a", "}">>],
      [text |-> <<"{", "\n">>, kept |-> <<"{", "\n">>] }

NoMessage == [pre |-> <<>>, marker |-> <<>>, post |-> <<>>,
              keptPre |-> <<>>, keptPost |-> <<>>]

MessageText(m) == m.pre \o m.marker \o m.post

\* add_message(sender='ai') up to the call of _strip_json_objects.  The
\* message has no THINKING marker: the regular expressions of lines 38-48
\* match nothing in it.
AddMessage ==
    /\ sm_pc = "idle"
    /\ \E pre \in Around, post \in Around, args \in MarkerArgs, result \in MarkerResults :
          sm_msg' = [pre |-> pre.text, marker |-> ToolMarker(args, result),
                     post |-> post.text,
                     keptPre |-> pre.kept, keptPost |-> post.kept]
    /\ sm_pc' = "loop"
    /\ sm_i' = 1
    /\ sm_result' = <<>>
    /\ UNCHANGED <<sm_clean, outsideStrip>>

\* while i < len(text): one turn
StripTurn ==
    /\ sm_pc = "loop"
    /\ ~ReturnsAtOnce(MessageText(sm_msg))
    /\ sm_i <= Len(MessageText(sm_msg))
    /\ LET t == LoopTurn(MessageText(sm_msg), sm_i, sm_result)
       IN  /\ sm_i' = t.i
           /\ sm_result' = t.result
    /\ UNCHANGED <<sm_pc, sm_msg, sm_clean, outsideStrip>>

\* return ''.join(result), and text.strip() in _strip_markers
StripMarkers ==
    /\ sm_pc = "loop"
    /\ \/ /\ ReturnsAtOnce(MessageText(sm_msg))
          /\ sm_clean' = StripSpace(MessageText(sm_msg))
       \/ /\ ~ReturnsAtOnce(MessageText(sm_msg))
          /\ sm_i > Len(MessageText(sm_msg))
          /\ sm_clean' = StripSpace(sm_result)
    /\ sm_pc' = "cleaned"
    /\ sm_i' = 0
    /\ sm_result' = <<>>
    /\ UNCHANGED <<sm_msg, outsideStrip>>

\* conversation_ref.update(...) and the return
StoreMessage ==
    /\ sm_pc = "cleaned"
    /\ sm_pc' = "idle"
    /\ sm_msg' = NoMessage
    /\ sm_clean' = <<>>
    /\ UNCHANGED <<sm_i, sm_result, outsideStrip>>

InitStrip ==
    /\ sm_pc = "idle"
    /\ sm_msg = NoMessage
    /\ sm_i = 0
    /\ sm_result = <<>>
    /\ sm_clean = <<>>

NextStrip ==
    \/ AddMessage
    \/ StripTurn
    \/ StripMarkers
    \/ StoreMessage

(***************************************************************************)
(* DatabaseOperations.get_tables and get_table_schema called by several    *)
(* users of one process, and clear_cache.  Rows carry where they came      *)
(* from: the user whose connection they were fetched over and the number   *)
(* of clear_cache calls completed when they were fetched.                  *)
(***************************************************************************)
outsideInfo == <<firstVars, stripVars, addVars>>

Users == {"u1", "u2"}

\* tables_{db}_{schema} and schema_{db}_{table}: both users' connections use
\* the same database, schema and table names
InfoKeys == {"tables_db1_public", "schema_db1_t1"}

NoData == [by |-> "none", fetched_at |-> -1]
NoInfo == [k \in InfoKeys |-> NoData]

\* with get_db_cursor() as cursor: ... cursor.fetchall()
FetchedBy(u) == [by |-> u, fetched_at |-> ic_clears]

\* the cache check under the lock: a hit returns the cached entry
InfoLookup ==
    \E u \in Users, k \in InfoKeys :
        /\ ic_pc[u] = "idle"
        /\ IF ic_cache[k] # NoData
              THEN /\ ic_ret' = [ic_ret EXCEPT ![u] = ic_cache[k]]
                   /\ UNCHANGED <<ic_pc, ic_key>>
              ELSE /\ ic_pc' = [ic_pc EXCEPT ![u] = "miss"]
                   /\ ic_key' = [ic_key EXCEPT ![u] = k]
                   /\ ic_ret' = [ic_ret EXCEPT ![u] = NoData]
        /\ UNCHANGED <<ic_cache, ic_rows, ic_clears, outsideInfo>>

\* the query over the caller's connection, outside the lock
InfoFetch ==
    \E u \in Users :
        /\ ic_pc[u] = "miss"
        /\ ic_rows' = [ic_rows EXCEPT ![u] = FetchedBy(u)]
        /\ ic_pc' = [ic_pc EXCEPT ![u] = "fetched"]
        /\ UNCHANGED <<ic_cache, ic_key, ic_ret, ic_clears, outsideInfo>>

\* the query raises: DatabaseOperationError, nothing is cached
InfoFetchFails ==
    \E u \in Users :
        /\ ic_pc[u] = "miss"
        /\ ic_pc' = [ic_pc EXCEPT ![u] = "idle"]
        /\ UNCHANGED <<ic_cache, ic_key, ic_rows, ic_ret, ic_clears, outsideInfo>>

\* the cache write under the lock, and the return
InfoStore ==
    \E u \in Users :
        /\ ic_pc[u] = "fetched"
        /\ ic_cache' = [ic_cache EXCEPT ![ic_key[u]] = ic_rows[u]]
        /\ ic_ret' = [ic_ret EXCEPT ![u] = ic_rows[u]]
        /\ ic_pc' = [ic_pc EXCEPT ![u] = "idle"]
        /\ UNCHANGED <<ic_key, ic_rows, ic_clears, outsideInfo>>

\* DatabaseOperations.clear_cache(): _info_cache.clear() under the lock
InfoClear ==
    /\ ic_clears < MaxClears
    /\ ic_cache' = NoInfo
    /\ ic_clears' = ic_clears + 1
    /\ UNCHANGED <<ic_pc, ic_key, ic_rows, ic_ret, outsideInfo>>

InitInfo ==
    /\ ic_cache = NoInfo
    /\ ic_pc = [u \in Users |-> "idle"]
    /\ ic_key = [u \in Users |-> "none"]
    /\ ic_rows = [u \in Users |-> NoData]
    /\ ic_ret = [u \in Users |-> NoData]
    /\ ic_clears = 0

NextInfo ==
    \/ InfoLookup
    \/ InfoFetch
    \/ InfoFetchFails
    \/ InfoStore
    \/ InfoClear

(***************************************************************************)
(* ContextService.add_query called by two requests of the same user.  The  *)
(* read of the context document (_get_context) and the write of the        *)
(* updated list (_update_context) are two steps of a call; an entry is the *)
(* number of its call.                                                     *)
(***************************************************************************)
outsideAdd == <<firstVars, stripVars, infoVars>>

Requests == {"r1", "r2"}

\* context = _get_context(user_id); queries = context.get('recent_queries', []);
\* queries.append(query_entry); queries = queries[-MAX_RECENT_QUERIES:]
AddQueryRead ==
    \E r \in Requests :
        /\ aq_pc[r] = "idle"
        /\ aq_calls < MaxRequestAdds
        /\ aq_calls' = aq_calls + 1
        /\ aq_entry' = [aq_entry EXCEPT ![r] = aq_calls + 1]
        /\ aq_queries' = [aq_queries EXCEPT ![r] = KeepLast(Append(aq_doc, aq_calls + 1))]
        /\ aq_pc' = [aq_pc EXCEPT ![r] = "read"]
        /\ UNCHANGED <<aq_doc, aq_returned, outsideAdd>>

\* return _update_context(user_id, {'recent_queries': queries}): set(merge=True)
\* replaces the list, or raises and the call returns False
AddQueryWrite ==
    \E r \in Requests, ok \in BOOLEAN :
        /\ aq_pc[r] = "read"
        /\ IF ok
              THEN /\ aq_doc' = aq_queries[r]
                   /\ aq_returned' = aq_returned \cup {aq_entry[r]}
              ELSE UNCHANGED <<aq_doc, aq_returned>>
        /\ aq_pc' = [aq_pc EXCEPT ![r] = "idle"]
        /\ UNCHANGED <<aq_queries, aq_entry, aq_calls, outsideAdd>>

InitAdd ==
    /\ aq_doc = <<>>
    /\ aq_pc = [r \in Requests |-> "idle"]
    /\ aq_queries = [r \in Requests |-> <<>>]
    /\ aq_entry = [r \in Requests |-> 0]
    /\ aq_calls = 0
    /\ aq_returned = {}

NextAdd ==
    \/ AddQueryRead
    \/ AddQueryWrite

(***************************************************************************)
(* Specifications.                                                         *)
(***************************************************************************)
Init ==
    /\ InitChat /\ InitConn /\ InitQuery /\ InitDesc /\ InitSchema
    /\ InitCursor /\ InitSummary /\ InitList /\ InitStrip /\ InitInfo /\ InitAdd

SpecStrip == Init /\ [][NextStrip]_vars

SpecInfo == Init /\ [][NextInfo]_vars

SpecAdd == Init /\ [][NextAdd]_vars

SpecSchema == Init /\ [][NextSchema]_vars

SpecRecent == Init /\ [][NextRecent]_vars

SpecRows == Init /\ [][NextRows]_vars

SpecCursor == Init /\ [][NextCursor]_vars

SpecSummary == Init /\ [][NextSummary]_vars

SpecList == Init /\ [][NextList]_vars

SpecDesc == Init /\ [][NextDesc]_vars

SpecQuery == Init /\ [][NextQuery]_vars

SpecChat == Init /\ [][NextChat]_vars

SpecConn == Init /\ [][NextConn]_vars

(***************************************************************************)
(* Properties of the chat run.                                             *)
(***************************************************************************)
AiRecords == {i \in 1..Len(store) : store[i].role = "ai"}
UserRecords == {i \in 1..Len(store) : store[i].role = "user"}

\* C1 (as stated): against a model that requests tools in every response,
\* the number of LLM completion calls of a run never exceeds MAX_TOOL_ROUNDS.
C1_CallsWithinRoundLimit ==
    everyResponseHadTools => toolLLMCalls + finalLLMCalls <= MAX_TOOL_ROUNDS

\* C1 (amended): at most MAX_TOOL_ROUNDS completion calls are made with tool
\* definitions and at most one more, the final streaming call, so a run never
\* makes more than MAX_TOOL_ROUNDS + 1 completion calls.
C1_CallsBounded ==
    /\ toolLLMCalls <= MAX_TOOL_ROUNDS
    /\ finalLLMCalls <= 1
    /\ toolLLMCalls + finalLLMCalls <= MAX_TOOL_ROUNDS + 1
    /\ tool_round = toolLLMCalls

\* a model that asked for tools in all MAX_TOOL_ROUNDS responses, and the
\* final streaming call made after them
C1_Witness ==
    /\ everyResponseHadTools
    /\ toolLLMCalls = MAX_TOOL_ROUNDS
    /\ finalLLMCalls = 1

\* C2: whatever the model answers, a run whose LLM calls all succeed leaves
\* the tool loop and issues the final streaming call before it ends.
C2_RunReachesFinalCall ==
    (ipc = "ended" /\ errCause # "llm") => finalLLMCalls = 1

\* C3: a tool call that fails never takes the run to the except clause of
\* stream_with_tools; every call that got a "running" frame gets its "done"
\* frame and the run goes on to the final streaming response.
C3_ToolFailureContained ==
    /\ errCause # "tool"
    /\ (ipc = "ended" /\ errCause # "llm") =>
          /\ \A i \in 1..Len(tools_used) : tools_used[i].status = "done"
          /\ finalLLMCalls = 1

\* positions of the inner generator at a yield inside a tool round: after an
\* error frame or a "done" frame, after the rationale, after "running"
ToolRoundYields == {"forCall", "preRunning", "execute"}

\* C5: an abort during a tool round leaves exactly one stored assistant
\* message, holding the chunks and tools gathered so far, marked as stopped.
C5_AbortKeepsOnePartialMessage ==
    (opc = "finished" /\ was_aborted /\ abortedAt \in ToolRoundYields) =>
        /\ Cardinality(AiRecords) = 1
        /\ \A i \in AiRecords :
             /\ store[i].content = full_response_content
             /\ store[i].tools = tools_used
             /\ store[i].stopped

\* the chunks that a step adds to the stream
NewChunks ==
    {c \in BagToSet(full_response_content') :
        CopiesIn(c, full_response_content') > CopiesIn(c, full_response_content)}

\* C11: in the stream of one run, read to its end, every "running" frame is
\* followed by the "done" frame of the same call before any frame of another
\* call, and a "done" frame with an execution result never comes before the
\* "running" frame of its call.
C11_FramesPairedInOrder ==
    /\ [](ipc = "ended" => openCall = NoKey)
    /\ [][\A c \in NewChunks :
            /\ (c.k = "tool" /\ openCall # NoKey)
                 => (c = ToolFrame(cur.name, "done") /\ openCall' = NoKey)
            /\ c = ToolFrame(c.a, "done") => openCall # NoKey]_vars

\* the structured error frames in the stream
ErrorFrames ==
    LET F == {ToolFrame(n, "done_error") : n \in ToolNames}
                \cap BagToSet(full_response_content)
    IN  BagCardinality([c \in F |-> full_response_content[c]])

\* C12: a tool call whose arguments are not valid JSON or fail validation
\* gets exactly one "done" frame with a structured error, is not handed to
\* the tool executor, and the loop goes on with the remaining calls of the
\* round.
C12_RejectedCallGetsOneErrorFrame ==
    /\ ErrorFrames = badCalls
    /\ dispatched <= okCalls
    /\ (InnerRuns /\ ipc = "forCall")
         => badCalls + okCalls + pending = messages.toolCalls

C12_Witness ==
    /\ tool_round = 1 /\ badCalls = 1 /\ okCalls = 1
    /\ messages.toolCalls = 2 /\ ErrorFrames = 1
    /\ ipc = "execute"

\* the "done" frames in the stream, with a result or with an error
DoneFrames ==
    LET F == {ToolFrame(n, st) : n \in ToolNames, st \in {"done", "done_error"}}
                \cap BagToSet(full_response_content)
    IN  BagCardinality([c \in F |-> full_response_content[c]])

C14_ApiFailureStoresNothing ==
    (opc = "finished" /\ (errCause = "llm" \/ ipc = "crashed")) => store = <<>>

\* the THINKING blocks of the stream that are open: starts minus ends
OpenThinking ==
    CopiesIn(ThinkingMarker("start"), full_response_content)
        - CopiesIn(ThinkingMarker("end"), full_response_content)

\* C23: in a run read to its end the THINKING markers are well-bracketed: a
\* start comes only while no block is open, an end and a chunk only while one
\* is open, no text comes while one is open, and none is open when the stream
\* has finished.
C23_ThinkingWellBracketed ==
    /\ [](ipc = "ended" => OpenThinking = 0)
    /\ [][\A c \in NewChunks :
            /\ c = ThinkingMarker("start") => OpenThinking = 0
            /\ c = ThinkingMarker("end") => OpenThinking = 1
            /\ c = ThinkingMarker("chunk") => OpenThinking = 1
            /\ c.k = "text" => OpenThinking = 0]_vars

\* C29: a run, whether it completes, fails or is aborted, persists the user
\* prompt at most once and an assistant message at most once, and an
\* assistant message only after the user prompt.
C29_StoresPromptThenAnswerOnce ==
    /\ Cardinality(UserRecords) <= 1
    /\ Cardinality(AiRecords) <= 1
    /\ \A i \in AiRecords : \E j \in UserRecords : j < i

\* an aborted run that had delivered a tool frame and text: both records
C29_Witness ==
    /\ opc = "finished" /\ was_aborted
    /\ tools_used # <<>> /\ HasText(full_response_content)
    /\ Len(store) = 2 /\ store[1].role = "user" /\ store[2].role = "ai"

\* the step sends the message list to the model
SendsMessages == toolLLMCalls' > toolLLMCalls \/ finalLLMCalls' > finalLLMCalls

\* C28: whenever the message list is sent to the model, every tool call of
\* its assistant messages has its tool-role message: a call gets at most one
\* (appended in its own turn of the for loop, with its id), so the list
\* holds as many tool messages as tool calls, rejected calls included.
C28_EveryToolCallAnswered ==
    [][SendsMessages => messages.toolMsgs = messages.toolCalls]_vars

(***************************************************************************)
(* Properties of get_connection.  lastGet holds what the last call read,   *)
(* returned and left behind.                                               *)
(***************************************************************************)
\* the call found a stored connected state and a request with a Flask session
LiveSession(g) ==
    g.called /\ g.pre.connected /\ g.inRequest /\ g.session = "configured"

AgeSeconds(g) == g.time - g.pre.connected_at

C7_ZeroPreferenceProbes ==
    (LiveSession(lastGet) /\ lastGet.pref = 0 /\ lastGet.out.ret.connected)
        => lastGet.out.probed

\* C7 (amended): with a connected stored state, a live session and a
\* persistence preference of 0, get_connection never probes: it returns the
\* stored state as it is, whatever its age and whether or not the pooled
\* connection still answers, and writes nothing.
C7_ZeroPreferenceNeverProbes ==
    (LiveSession(lastGet) /\ lastGet.pref = 0)
        => /\ ~lastGet.out.probed
           /\ lastGet.out.ret = Returned(lastGet.pre, "none")
           /\ lastGet.out.post = lastGet.pre

C7_Witness ==
    /\ LiveSession(lastGet) /\ lastGet.pref = 0
    /\ ~lastGet.alive /\ AgeSeconds(lastGet) > 0
    /\ lastGet.out.ret.connected

\* C8: with a connected stored state, a live session, a preference of p > 0
\* minutes and connected_at older than p minutes, the call probes; a failed
\* probe leaves the stored state disconnected and returns connected=false
\* with reason db_pool_dead; a successful probe sets connected_at to the
\* current time and returns connected, and a call made no more than p minutes
\* after a successful probe does not probe.
C8_ExpiredGraceProbes ==
    /\ (LiveSession(lastGet) /\ lastGet.pref > 0
          /\ AgeSeconds(lastGet) > lastGet.pref * SecondsPerMinute)
         => /\ lastGet.out.probed
            /\ IF lastGet.alive
               THEN /\ lastGet.out.ret.connected
                    /\ lastGet.out.post.connected
                    /\ lastGet.out.post.connected_at = lastGet.time
               ELSE /\ ~lastGet.out.ret.connected
                    /\ lastGet.out.ret.reason = "db_pool_dead"
                    /\ ~lastGet.out.post.connected
    /\ (lastGet.called /\ lastGet.pref > 0 /\ lastGet.sinceProbeOk >= 0
          /\ lastGet.sinceProbeOk <= lastGet.pref * SecondsPerMinute)
         => ~lastGet.out.probed

C8_Witness ==
    /\ LiveSession(lastGet) /\ lastGet.pref > 0
    /\ lastGet.sinceProbeOk > 0
    /\ lastGet.sinceProbeOk <= lastGet.pref * SecondsPerMinute
    /\ AgeSeconds(lastGet) = lastGet.sinceProbeOk
    /\ ~lastGet.alive
    /\ lastGet.out.ret.connected

\* C19: a call that finds the stored state disconnected, or finds it
\* connected with a live session, a preference of p > 0 minutes and
\* connected_at no older than p minutes, returns the stored state as it is,
\* sends no probe and writes nothing to the stored context.
C19_FreshOrDisconnectedReadOnly ==
    (lastGet.called
       /\ \/ ~lastGet.pre.connected
          \/ /\ LiveSession(lastGet)
             /\ lastGet.pref > 0
             /\ AgeSeconds(lastGet) <= lastGet.pref * SecondsPerMinute)
        => /\ lastGet.out.ret = Returned(lastGet.pre, "none")
           /\ lastGet.out.post = lastGet.pre
           /\ ~lastGet.out.probed
           /\ ~lastGet.out.cleared
           /\ ~lastGet.out.refreshed

\* the age is exactly the preference and the pooled connection is dead
C19_Witness ==
    /\ LiveSession(lastGet) /\ lastGet.pref > 0
    /\ lastGet.pre.connected_at >= 0
    /\ AgeSeconds(lastGet) = lastGet.pref * SecondsPerMinute
    /\ ~lastGet.alive
    /\ lastGet.out.ret.connected

(***************************************************************************)
(* Properties of query execution.                                          *)
(***************************************************************************)
Rejected(q) == q.analysis = "raise" \/ ~q.is_safe \/ q.query_type # "SELECT"

QuerySent(e) == \E i \in 1..Len(e.out.sent) : e.out.sent[i] = "query"

\* C4: on the session path and on the AI-tool path alike, the query reaches
\* cursor.execute only if its analysis says is_safe and query_type SELECT;
\* for a rejected query the call hands no statement at all to the driver.
C4_OnlySafeSelectExecuted ==
    /\ QuerySent(lastExec) => (lastExec.q.analysis = "ok" /\ lastExec.q.is_safe
                                 /\ lastExec.q.query_type = "SELECT")
    /\ (lastExec.path # "none" /\ Rejected(lastExec.q)) => lastExec.out.sent = <<>>

C4_Witness ==
    /\ lastExec.path = "tool" /\ lastExec.direct
    /\ lastExec.out.sent = <<"search_path", "query">>
    /\ lastExec.out.status = "success"

\* C15: on the session path and on the AI-tool path alike, a query longer
\* than the configured maximum is rejected before the security analysis runs
\* and is never executed.
C15_TooLongRejectedBeforeAnalysis ==
    (lastExec.path # "none" /\ lastExec.q.tooLong)
        => (~lastExec.out.analysed /\ ~QuerySent(lastExec))

(***************************************************************************)
(* Properties of the descriptor operations.                                *)
(***************************************************************************)
\* C9: every operation that establishes a descriptor leaves the
\* introspection cache empty, so the cache never holds an entry that was
\* cached under a previous descriptor and no get_tables or get_table_schema
\* call is answered with one.
C9_NewDescriptorEmptiesCache ==
    /\ \A k \in CacheKeys : infoCache[k] # "previous"
    /\ served # "previous"

\* C10: an operation that replaces the active descriptor, a connect handler
\* or switch_remote_database, closes the pool that was active before it
\* exactly once and does not leave it open.
C10_PriorPoolClosedOnce ==
    (lastOp.op \in {"connect", "switch"} /\ lastOp.replaced /\ lastOp.priorHadPool)
        => (lastOp.priorClosed = 1 /\ ~lastOp.priorOpen)


\* C20: after a connect attempt that returned an error status, whether the
\* driver raised or validate_connection returned false, the session holds no
\* database configuration and the attempt has not set the stored connection
\* context to connected.
C20_FailedConnectLeavesNoConfig ==
    lastConnect.status = "error"
        => /\ ~lastConnect.configured
           /\ ~lastConnect.synced

(***************************************************************************)
(* Properties of the schema cache.                                         *)
(***************************************************************************)
\* the age, at the time of a read, of what cache_schema last stored
CachedAge(d) == cacheNow - lastCached[d].cached_at

\* C16: a get_cached_schema call for a database that cache_schema has stored
\* returns the tables and the columns of that call while the age is within
\* SCHEMA_CACHE_TTL_SECONDS and returns None once it is beyond, it leaves the
\* stored map as it is, and an entry disappears only in
\* invalidate_schema_cache or clear_all_context.
C16_CachedSchemaRoundTrip ==
    /\ [][GetCachedSchema =>
            LET d == lastRead'.database
                given == lastCached[d]
            IN /\ database_schemas' = database_schemas
               /\ given.present =>
                     IF CachedAge(d) <= SCHEMA_CACHE_TTL_SECONDS
                     THEN /\ lastRead'.hit
                          /\ lastRead'.tables = given.tables
                          /\ lastRead'.columns = given.columns
                     ELSE ~lastRead'.hit]_vars
    /\ [][\A d \in Databases :
            (database_schemas[d].present /\ ~database_schemas'[d].present)
               => (InvalidateSchemaCache \/ ClearAllContext)]_vars


(***************************************************************************)
(* Properties of the query history.                                        *)
(***************************************************************************)
Min(a, b) == IF a < b THEN a ELSE b

C18_RowCapTruncates ==
    lastRows.status = "success" =>
        LET n == Len(lastRows.fetched)
            m == lastRows.cap
        IN /\ Len(lastRows.out.rows) = Min(n, m)
           /\ lastRows.out.rows = SubSeq(lastRows.fetched, 1, Min(n, m))
           /\ lastRows.out.row_count = Min(n, m)
           /\ lastRows.out.total_rows = n
           /\ lastRows.out.truncated = (n > m)

\* a result larger than a positive cap was cut
C18_Witness ==
    /\ lastRows.status = "success"
    /\ lastRows.cap > 0
    /\ Len(lastRows.fetched) > lastRows.cap
    /\ lastRows.out.truncated


(***************************************************************************)
(* Properties of get_cursor.                                               *)
(***************************************************************************)
\* the with-body ran and the context manager has been left
BodyExited == gc_pc = "exited" /\ (gc_calls.commit > 0 \/ gc_first # "none")

\* C21: once a with-body has been left, the cursor has been closed exactly
\* once; commit was called if and only if the body finished without an
\* exception; and if the body or the commit raised, rollback was called and
\* the exception that reaches the caller is that same exception.
C21_ScopedCursorContract ==
    BodyExited =>
        /\ gc_calls.close = 1
        /\ (gc_calls.commit = 1) <=> (gc_first \in {"none", "commit_error"})
        /\ gc_first # "none" => (gc_calls.rollback = 1 /\ gc_pending = gc_first)


(***************************************************************************)
(* Properties of the tool result summaries.                                *)
(***************************************************************************)
\* C22: the summary of an execute_query or get_sample_data result that goes
\* into the tool message has at most 5 rows, the first ones of the result,
\* and no 'data' list, whatever the number of rows of the result.
C22_LlmSummaryHasPreviewOnly ==
    lastSummary.called =>
        /\ Len(lastSummary.llm.preview) <= PreviewRows
        /\ lastSummary.llm.preview
              = SubSeq(lastSummary.raw.data, 1, Min(Len(lastSummary.raw.data), PreviewRows))
        /\ ~lastSummary.llm.hasData
        /\ lastSummary.llm.data = <<>>

\* an execute_query result of more than 5 rows: all of them in the UI
\* summary, 5 in the LLM summary
C22_Witness ==
    /\ lastSummary.called
    /\ lastSummary.tool = "execute_query"
    /\ Len(lastSummary.raw.data) > PreviewRows
    /\ lastSummary.ui.data = lastSummary.raw.data
    /\ Len(lastSummary.llm.preview) = PreviewRows


(***************************************************************************)
(* Properties of the database lists.                                       *)
(***************************************************************************)
\* C24: a database list returned by get_databases or by the
\* get_database_list tool holds no name whose lower-case form is in the
\* adapter's get_system_databases(), and holds every other name the engine
\* returned.
C24_SystemDatabasesExcluded ==
    lastList.status = "success" =>
        /\ \A db \in lastList.databases :
              Lower(db) \notin get_system_databases(lastList.engine)
        /\ \A db \in lastList.fetched :
              Lower(db) \notin get_system_databases(lastList.engine)
                 => db \in lastList.databases

(***************************************************************************)
(* Properties of the stored assistant message.                             *)
(***************************************************************************)
\* what the message keeps when exactly the complete valid JSON objects
\* outside the marker are taken out
ExpectedClean(m) == StripSpace(m.keptPre \o m.marker \o m.keptPost)

\* C25: the cleaned text of a message is the message without the complete
\* valid JSON objects outside its TOOL marker, so the marker, whatever the
\* length of its arguments and result, is in the stored content unchanged.
C25_ToolMarkerKept ==
    sm_pc = "cleaned" =>
        /\ Contains(sm_clean, sm_msg.marker)
        /\ sm_clean = ExpectedClean(sm_msg)

(***************************************************************************)
(* Properties of the introspection cache under several users.              *)
(***************************************************************************)
\* C26: what get_tables / get_table_schema returns to a user was fetched
\* over that user's own connection, never over another user's.
C26_ReturnedRowsAreOwn ==
    \A u \in Users : ic_ret[u] # NoData => ic_ret[u].by = u

\* C27: the introspection cache holds no entry that was fetched before the
\* most recent completed clear_cache.
C27_NoEntryOlderThanClear ==
    \A k \in InfoKeys : ic_cache[k] # NoData => ic_cache[k].fetched_at = ic_clears

(***************************************************************************)
(* Properties of concurrent add_query calls.                               *)
(***************************************************************************)
\* the entries of the stored list
StoredEntries == {aq_doc[i] : i \in 1..Len(aq_doc)}

\* C30: once the add_query calls of both requests have returned, the entry
\* of every call that returned True is in recent_queries, unless the list
\* is at its capacity of 10: no interleaving loses an entry.
C30_NoEntryLost ==
    (\A r \in Requests : aq_pc[r] = "idle") =>
        \/ Len(aq_doc) = MAX_RECENT_QUERIES
        \/ aq_returned \subseteq StoredEntries

====
